---- MODULE Spec2Model ----
(***************************************************************************)
(* A model of plugGo: the plugin registry (registry/registry.go), the      *)
(* PluginInstance wrapper (instance.go) and the lifecycle orchestrator     *)
(* Boot (boot.go).                                                         *)
(*                                                                         *)
(* Spec            registry + PluginInstance, called from concurrent       *)
(*                 goroutines                                              *)
(* SpecCreateOnly  the registry under RegisterFactory / CreateInstance     *)
(*                 calls alone                                             *)
(* SpecBoot        one Boot.Shutdown call with its goroutines and timers   *)
(* FairSpecBootBlocked  a shutdown in which no Interrupt ever returns, every *)
(*                 goroutine that can run does run, hooks return and armed  *)
(*                 timers fire                                              *)
(* SpecBootPanic   SpecBoot with shutdown hooks and Interrupts that panic   *)
(* SpecBootstrap   hook registration and one Boot.Bootstrap call            *)
(* SpecPlugin      Start / Stop / Reload calls on one announcement Plugin   *)
(*                 and a consumer of StatusNotify()                         *)
(* SpecPluginNoConsumer  the same calls while nothing receives from         *)
(*                 StatusNotify()                                           *)
(* SpecTemplate    Start / Stop / Reload calls on one template Plugin       *)
(* SpecInstance    one PluginInstance under UpdateConfig, Start and Stop    *)
(* SpecContext     the AppContext and a caller holding what its reads       *)
(*                 returned                                                 *)
(* SpecLifecycle   Bootstrap, Shutdown and Reload calls over announcement   *)
(*                 and template Components                                  *)
(* SpecRegFunc     RegisterAnnouncementEntry and RegisterTemplateEntry on   *)
(*                 the entries of their section                             *)
(* SpecNewBoot     registrations of construction functions, one NewBoot     *)
(*                 call, then Bootstrap and Shutdown of the Boot it built   *)
(***************************************************************************)
EXTENDS Integers, Sequences, FiniteSets, TLC

VARIABLES
    factories,   \* Registry.factories: the registered plugin type names
    instances,   \* Registry.instances: instance id -> *PluginInstance (0: absent)
    heap,        \* the PluginInstance objects allocated so far, by address
    applied,     \* per object: the config its Plugin was last given with success
    regMu,       \* Registry.mu: the goroutine holding the write lock, or "free"
    imu,         \* per object: PluginInstance.mu, its holder or "free"
    th,          \* per goroutine: the call it is in, its locals and its result
    createdWith, \* every config factory.Create has been invoked with
    everCreated, \* the ids some CreateInstance has succeeded for
    boot,        \* the goroutine in Boot.Shutdown: its position, the shutdown context
    wg,          \* the sync.WaitGroup variable of interruptWithContext
    g,           \* per Entry: its interruptSingleEntry goroutine, its Interrupt call,
                 \* its entry context
    w,           \* per pool: the goroutine of waitWithTimeout and its done channel
    bs,          \* the goroutine in Boot.Bootstrap: its position, what it has called
    hookF,       \* Boot.beforeHookF and Boot.afterHookF: the keys a hook is registered for
    pl,          \* one announcement Plugin, its status channel and the consumer of it
    ret,         \* the last Start / Stop / Reload call on pl and the error it returned
    tp,          \* one template Plugin, its status channel, its consumer, its last call
    ac,          \* the AppContext: entries, shutdownHooks, and per family the backing
                 \* array and the length of the regFuncs slice
    hd,          \* what a caller holds: the results the List calls returned to it last
    lc,          \* the Components of one Boot: their enabled flags, configs and
                 \* monitors or plugins, and the calls Bootstrap and Shutdown still
                 \* have to make
    nb,          \* one NewBoot call and the Boot it builds: the registered construction
                 \* functions, the raw document, the two pools, the catalog of the
                 \* AppContext, the calls made so far
    rf,          \* one run of a construction function: the names of the section's
                 \* entries, the loop index, the result map (name -> entry index)
    wi           \* one PluginInstance wrapping an announcement Plugin: the config of
                 \* record, the Plugin's cfg, monitor and status, the last call

regVars == <<factories, instances, heap, applied, regMu, imu, th, createdWith, everCreated>>

bootVars == <<boot, wg, g, w>>

bsVars == <<bs, hookF>>

plVars == <<pl, ret>>

tpVars == <<tp>>

instVars == <<wi>>

ctxVars == <<ac, hd>>

lcVars == <<lc>>

rfVars == <<rf>>

nbVars == <<nb>>

\* the state of the parts that follow the announcement Plugin
auxVars == <<tpVars, instVars, ctxVars, lcVars, rfVars, nbVars>>

vars == <<regVars, bootVars, bsVars, plVars, auxVars>>

-----------------------------------------------------------------------------
(* Bounds and input sets *)

\* PluginInstance objects allocated in one run
MaxInst == 2

Threads == {"g1", "g2"}

Ids == {"a", "b"}

PluginName == "announcement"

\* the pluginType arguments: the registered name and one that no factory has
PluginTypes == {PluginName, "missing"}

Src(n, u, i) == [name |-> n, url |-> u, interval |-> i]

\* a nil interface{}
Nil == [typ |-> "nil", sources |-> <<>>]

CfgA == [typ |-> "*config.Config", sources |-> <<Src("s", "u", 1)>>]

CfgB == [typ |-> "*config.Config", sources |-> <<Src("s", "u", 2)>>]

\* &config.Config{}: what DefaultConfig falls back to
CfgEmpty == [typ |-> "*config.Config", sources |-> <<>>]

CfgOther == [typ |-> "string", sources |-> <<>>]

\* the config arguments of the calls (CfgEmpty comes from DefaultConfig)
Configs == {CfgA, CfgB, CfgOther}

-----------------------------------------------------------------------------
(* The factory *)

\* Factory.ValidateConfig: TRUE when it returns nil
ValidateConfig(cfg) ==
    /\ cfg.typ = "*config.Config"
    /\ Len(cfg.sources) # 0
    /\ \A i \in 1..Len(cfg.sources) :
          /\ cfg.sources[i].name # ""
          /\ cfg.sources[i].url # ""
          /\ cfg.sources[i].interval > 0

\* Factory.DefaultConfig: the embedded config.yaml as loaded, or the empty
\* config when loading fails
DefaultConfig == {CfgA, CfgEmpty}

\* NewPluginInstance: the wrapper of a created plugin; status is the status of
\* the Plugin it wraps, Idle as Factory.Create leaves it
NewPluginInstance(id, pluginType, config) ==
    [id |-> id, pluginType |-> pluginType, config |-> config, status |-> "Idle"]

-----------------------------------------------------------------------------
(* Boot: the Entries of the two pools, the shutdown hooks, the initial state *)

UserEntries == {"u1", "u2"}

PluginEntries == {"p1"}

Entries == UserEntries \cup PluginEntries

\* GlobalAppCtx.shutdownHooks, as ListShutdownHooks copies it
Hooks == {"h1"}

Pools == {"user", "plugin"}

PoolOf(k) == IF k = "user" THEN UserEntries ELSE PluginEntries

\* var wg sync.WaitGroup: its counter, its registered waiters, its semaphore
ZeroWaitGroup == [count |-> 0, waiters |-> 0, sema |-> 0]

InitBoot ==
    /\ boot = [pc |-> "idle", hooksLeft |-> {}, toSpawn |-> {}, fired |-> FALSE,
               cancelled |-> FALSE, crashed |-> "no", panicIn |-> "none",
               hookRuns |-> [h \in Hooks |-> 0]]
    /\ wg = ZeroWaitGroup
    /\ g = [e \in Entries |->
              [pc |-> "none", ipc |-> "none", ctx |-> "none"]]
    /\ w = [k \in Pools |-> [pc |-> "none", done |-> FALSE]]

\* the (type, name) an Entry is stored under: unique within a pool, while the two
\* pools may hold an Entry each under the same (type, name)
EntryKey(e) == IF e = "u1" THEN "k1" ELSE "k2"

Keys == {EntryKey(e) : e \in Entries}

\* the f arguments of AddHookFuncBeforeBootstrap / AddHookFuncAfterBootstrap
HookFuncs == {"nil", "f"}

\* NewBoot: no hook registered; Bootstrap not called yet
InitBootstrap ==
    /\ bs = [pc |-> "idle", pool |-> "none", left |-> {}, cur |-> "none",
             phase |-> [e \in Entries |-> "none"],
             ranBefore |-> {}, booted |-> {}, ranAfter |-> {},
             nBefore |-> [k \in Keys |-> 0], nAfter |-> [k \in Keys |-> 0],
             panicIn |-> "none", crashed |-> "no"]
    /\ hookF = [before |-> {}, after |-> {}]

-----------------------------------------------------------------------------
(* The announcement Plugin as Factory.Create builds it *)

\* make(chan plugGo.StatusEvent, 10)
StatusChCap == 10

StatusEvent(status, err) == [status |-> status, err |-> err]

\* the newConfig arguments of Plugin.Reload: an enabled config, a disabled one and
\* a value that is no *config.Config
ReloadArgs == {"enabled", "disabled", "other"}

\* the events updateStatus drops in one run
MaxDrops == 1

\* Factory.Create: status Idle, an empty status channel, no monitor; last and prev
\* are the two events the consumer of StatusNotify() received last, dropped counts
\* the events updateStatus has dropped on a full channel
InitPlugin ==
    pl = [status |-> "Idle", enabled |-> TRUE, monitor |-> "nil", ch |-> <<>>,
          last |-> "none", prev |-> "none", dropped |-> 0]
    /\ ret = [op |-> "none", err |-> "nil"]

\* a template *config.Config: Enabled and Interval
TemplateCfg(enabled, interval) ==
    [typ |-> "*config.Config", Enabled |-> enabled, Interval |-> interval]

\* the newCfg arguments of the template Plugin.Reload: *config.Config values and a
\* value of another type
TemplateReloadArgs ==
    {TemplateCfg(TRUE, 1), TemplateCfg(TRUE, 2), TemplateCfg(FALSE, 1),
     [typ |-> "string", Enabled |-> FALSE, Interval |-> 0]}

\* template.NewPlugin: status Idle, not running, an open stop channel, an empty
\* status channel; op and err are the last call and what it returned ("panic"
\* when it panicked)
InitTemplate ==
    tp = [status |-> "Idle", running |-> FALSE, cfg |-> TemplateCfg(TRUE, 1),
          stopCh |-> "open",
          ch |-> <<>>, last |-> "none", prev |-> "none", dropped |-> 0,
          op |-> "none", err |-> "nil"]

\* a *config.Config with its Enabled flag
WithEnabled(cfg, enabled) ==
    [typ |-> cfg.typ, sources |-> cfg.sources, Enabled |-> enabled]

\* the configs given to CreateInstance and UpdateConfig of the wrapped instance: two
\* enabled ones, a disabled one, one without sources and a value of another type
InstConfigs ==
    {WithEnabled(CfgA, TRUE), WithEnabled(CfgB, TRUE), WithEnabled(CfgA, FALSE),
     WithEnabled(CfgEmpty, TRUE), WithEnabled(CfgOther, FALSE)}

\* p.monitor == nil
NoMonitor == [state |-> "nil", cfg |-> WithEnabled(Nil, FALSE)]

\* NewMonitor(cfg, logger) after Start: a running Monitor built from cfg
NewMonitor(cfg) == [state |-> "running", cfg |-> cfg]

\* before CreateInstance: no PluginInstance yet; pc, arg and old are the position
\* and the locals of the goroutine in UpdateConfig, op and err the call that
\* returned last; p.orphans holds the configs of the Monitors that were started,
\* never asked to stop and are no longer referenced by p.monitor
InitInstance ==
    wi = [made |-> FALSE, config |-> WithEnabled(Nil, FALSE),
          p |-> [cfg |-> WithEnabled(Nil, FALSE), monitor |-> NoMonitor, status |-> "Idle",
                 orphans |-> {}],
          pc |-> "idle", arg |-> WithEnabled(Nil, FALSE), old |-> WithEnabled(Nil, FALSE),
          op |-> "none", err |-> "nil"]

\* the (entryType, entryName) pairs Entries are registered under in the AppContext
CtxKeys == {<<"t1", "a">>, <<"t2", "a">>}

\* PluginEntryType and UserEntryType: the keys of AppContext.regFuncs
RegFamilies == {"plugin", "user"}

\* the registration functions appended to one regFuncs slice in one run
MaxRegFuncs == 2

\* a result map the caller has not asked for yet
NotHeld == [ref |-> "none", val |-> <<>>]

\* GlobalAppCtx as declared: empty maps, nil slices; the caller holds no result
InitContext ==
    /\ ac = [entries |-> [k \in CtxKeys |-> "none"],
             shutdownHooks |-> [h \in Hooks |-> "none"],
             arr |-> [f \in RegFamilies |-> <<>>],
             len |-> [f \in RegFamilies |-> 0]]
    /\ hd = [entries |-> NotHeld, hooks |-> NotHeld,
             funcs |-> [fam |-> "none", shared |-> FALSE, len |-> 0, own |-> <<>>]]

\* the Components of one Boot: two AnnouncementEntry and two TemplateEntry
AnnEntries == {"a1", "a2"}

TmplEntries == {"t1", "t2"}

\* after NewBoot: a1 and t1 were constructed from an enabled config, a2 and t2
\* from a disabled one; no monitor, no plugin. cfg is cfg.Enabled, enabled the
\* flag a TemplateEntry copies from its config at construction. todo holds the
\* Components a running Boot.Bootstrap has yet to call, pending the Components
\* whose Interrupt a Boot.Shutdown has yet to invoke; bootstrapped and interrupted
\* remember for each Component whether Boot has called its Bootstrap, its Interrupt
InitLifecycle ==
    lc = [c |-> [e \in AnnEntries \cup TmplEntries |->
                    IF e \in AnnEntries
                       THEN [cfg |-> e = "a1", mon |-> "nil"]
                       ELSE [enabled |-> e = "t1", cfg |-> e = "t1", mon |-> "nil"]],
          todo |-> {}, pending |-> {},
          bootstrapped |-> {}, interrupted |-> {}]

\* the entries of one section of boot.yaml
MaxEntries == 3

\* the name fields of those entries: blank, a name, and names of the two forms
\* the construction function generates (name-index, section-index)
EntryNames == {"", "n", "n-2", "announcement-1"}

\* the construction functions and the section each reads
RegFuncs == {"RegisterAnnouncementEntry", "RegisterTemplateEntry"}

Section(fn) == IF fn = "RegisterAnnouncementEntry" THEN PluginName ELSE "template"

\* no construction function has been called
InitRegFunc == rf = [fn |-> "none", names |-> <<>>, i |-> 0, result |-> <<>>]

\* a section of a document: absent, or present with the names of its entries
NoSection == [has |-> FALSE, names |-> <<>>]

SectionValues ==
    {NoSection} \cup {[has |-> TRUE, names |-> l] : l \in {<<>>, <<"n">>, <<"n", "">>}}

\* raw documents: the one of zero bytes, and those holding some of the sections
\* the construction functions read (and whatever else)
Documents ==
    {[empty |-> e, sec |-> f] : e \in {FALSE}, f \in [{Section(fn) : fn \in RegFuncs} -> SectionValues]}
    \cup {[empty |-> TRUE, sec |-> [x \in {Section(fn) : fn \in RegFuncs} |-> NoSection]]}

\* the boot.yaml in the working directory, when there is one
FileDocument ==
    [empty |-> FALSE,
     sec |-> [x \in {Section(fn) : fn \in RegFuncs} |->
                IF x = PluginName THEN [has |-> TRUE, names |-> <<"n">>] ELSE NoSection]]

\* the constant EntryTypeName of the package of construction function fn
EntryTypeName(fn) ==
    IF fn = "RegisterAnnouncementEntry" THEN "AnnouncementEntry" ELSE "TemplateEntry"

\* no Entry: the nil a lookup returns
NilEntry == [type |-> "", name |-> "", fam |-> "", k |-> 0]

\* before NewBoot: nothing registered, an empty catalog
InitNewBoot ==
    nb = [regFuncs |-> [fam \in RegFamilies |-> <<>>],
          pc |-> "idle", i |-> 0, raw |-> FileDocument, calls |-> <<>>,
          pools |-> [fam \in RegFamilies |-> <<>>], catalog |-> <<>>,
          bootstrapped |-> {}, interrupted |-> {}, exit |-> "no"]

-----------------------------------------------------------------------------
(* Goroutine-local state *)

NoSnap == [i \in Ids |-> 0]

IdleTh ==
    [pc |-> "idle", id |-> "", ptype |-> "", cfg |-> Nil, obj |-> 0, res |-> "",
     before |-> Nil, reload |-> "none", got |-> Nil, gotApplied |-> Nil,
     snapInst |-> NoSnap, snapFact |-> {}, snapLen |-> 0, wasCreated |-> FALSE]

Objs == 1..Len(heap)

Init ==
    /\ factories = {}
    /\ instances = [i \in Ids |-> 0]
    /\ heap = <<>>
    /\ applied = <<>>
    /\ regMu = "free"
    /\ imu = <<>>
    /\ th = [t \in Threads |-> IdleTh]
    /\ createdWith = {}
    /\ everCreated = {}
    /\ InitBoot
    /\ InitBootstrap
    /\ InitPlugin
    /\ InitTemplate
    /\ InitInstance
    /\ InitContext
    /\ InitLifecycle
    /\ InitRegFunc
    /\ InitNewBoot

-----------------------------------------------------------------------------
(* registry.RegisterFactory *)

RegisterFactory ==
    /\ regMu = "free"
    /\ factories' = factories \cup {PluginName}
    /\ UNCHANGED <<instances, heap, applied, regMu, imu, th, createdWith, everCreated, bootVars, bsVars, plVars, auxVars>>

-----------------------------------------------------------------------------
(* registry.CreateInstance, statement by statement under Registry.mu *)

\* the goroutines inside a CreateInstance call that has not yet returned
InCreate == {u \in Threads : th[u].pc \in {"ci_lock", "ci_check", "ci_factory",
                                            "ci_default", "ci_validate", "ci_create"}}

\* the call is made: CreateInstance(pluginType, instanceID, config, logger)
CI_Call(t) ==
    /\ th[t].pc = "idle"
    /\ Len(heap) + Cardinality(InCreate) < MaxInst
    /\ \E ptype \in PluginTypes, id \in Ids, cfg \in Configs \cup {Nil} :
          th' = [th EXCEPT ![t] =
                    [IdleTh EXCEPT !.pc = "ci_lock", !.id = id, !.ptype = ptype, !.cfg = cfg]]
    /\ UNCHANGED <<factories, instances, heap, applied, regMu, imu, createdWith, everCreated, bootVars, bsVars, plVars, auxVars>>

CI_Lock_NoMutex(t) ==
    /\ th[t].pc = "ci_lock"
    /\ th' = [th EXCEPT ![t].pc = "ci_check", ![t].snapInst = instances,
                        ![t].snapFact = factories, ![t].snapLen = Len(heap),
                        ![t].wasCreated = (th[t].id \in everCreated)]
    /\ regMu' = t
    /\ UNCHANGED <<factories, instances, heap, applied, imu, createdWith, everCreated, bootVars, bsVars, plVars, auxVars>>

\* defaultRegistry.mu.Lock()
CI_Lock(t) ==
    /\ th[t].pc = "ci_lock"
    /\ regMu = "free"
    /\ th' = [th EXCEPT ![t].pc = "ci_check", ![t].snapInst = instances,
                        ![t].snapFact = factories, ![t].snapLen = Len(heap),
                        ![t].wasCreated = (th[t].id \in everCreated)]
    /\ regMu' = t
    /\ UNCHANGED <<factories, instances, heap, applied, imu, createdWith, everCreated, bootVars, bsVars, plVars, auxVars>>

CI_CheckDup_LookupFirst(t) ==
    /\ th[t].pc = "ci_check"
    /\ IF th[t].ptype \notin factories
          THEN th' = [th EXCEPT ![t].pc = "ci_ret", ![t].res = "unknownFactory"]
          ELSE IF instances[th[t].id] # 0
                  THEN th' = [th EXCEPT ![t].pc = "ci_ret", ![t].res = "duplicate"]
                  ELSE th' = [th EXCEPT ![t].pc = "ci_factory"]
    /\ UNCHANGED <<factories, instances, heap, applied, regMu, imu, createdWith, everCreated, bootVars, bsVars, plVars, auxVars>>

CI_CheckDup_Skip(t) ==
    /\ th[t].pc = "ci_check"
    /\ th' = [th EXCEPT ![t].pc = "ci_factory"]
    /\ UNCHANGED <<factories, instances, heap, applied, regMu, imu, createdWith, everCreated, bootVars, bsVars, plVars, auxVars>>

\* if _, exists := instances[instanceID]; exists { return error }
CI_CheckDup(t) ==
    /\ th[t].pc = "ci_check"
    /\ IF instances[th[t].id] # 0
          THEN th' = [th EXCEPT ![t].pc = "ci_ret", ![t].res = "duplicate"]
          ELSE th' = [th EXCEPT ![t].pc = "ci_factory"]
    /\ UNCHANGED <<factories, instances, heap, applied, regMu, imu, createdWith, everCreated, bootVars, bsVars, plVars, auxVars>>

\* factory, ok := factories[pluginType]; if !ok { return error }
CI_Lookup(t) ==
    /\ th[t].pc = "ci_factory"
    /\ IF th[t].ptype \notin factories
          THEN th' = [th EXCEPT ![t].pc = "ci_ret", ![t].res = "unknownFactory"]
          ELSE th' = [th EXCEPT ![t].pc = "ci_default"]
    /\ UNCHANGED <<factories, instances, heap, applied, regMu, imu, createdWith, everCreated, bootVars, bsVars, plVars, auxVars>>

\* if config == nil { config = factory.DefaultConfig() }
CI_Default(t) ==
    /\ th[t].pc = "ci_default"
    /\ IF th[t].cfg = Nil
          THEN \E d \in DefaultConfig :
                  th' = [th EXCEPT ![t].pc = "ci_validate", ![t].cfg = d]
          ELSE th' = [th EXCEPT ![t].pc = "ci_validate"]
    /\ UNCHANGED <<factories, instances, heap, applied, regMu, imu, createdWith, everCreated, bootVars, bsVars, plVars, auxVars>>

CI_Validate_Ignored(t) ==
    /\ th[t].pc = "ci_validate"
    /\ th' = [th EXCEPT ![t].pc = "ci_create"]
    /\ UNCHANGED <<factories, instances, heap, applied, regMu, imu, createdWith, everCreated, bootVars, bsVars, plVars, auxVars>>

\* if err := factory.ValidateConfig(config); err != nil { return error }
CI_Validate(t) ==
    /\ th[t].pc = "ci_validate"
    /\ IF ValidateConfig(th[t].cfg)
          THEN th' = [th EXCEPT ![t].pc = "ci_create"]
          ELSE th' = [th EXCEPT ![t].pc = "ci_ret", ![t].res = "invalidConfig"]
    /\ UNCHANGED <<factories, instances, heap, applied, regMu, imu, createdWith, everCreated, bootVars, bsVars, plVars, auxVars>>

\* the instance is wrapped and registered
CI_Register(t) ==
    /\ heap' = Append(heap, NewPluginInstance(th[t].id, th[t].ptype, th[t].cfg))
    /\ applied' = Append(applied, th[t].cfg)
    /\ imu' = Append(imu, "free")
    /\ instances' = [instances EXCEPT ![th[t].id] = Len(heap) + 1]

CI_Create_RegistersFirst(t) ==
    /\ th[t].pc = "ci_create"
    /\ createdWith' = createdWith \cup {th[t].cfg}
    /\ CI_Register(t)
    /\ \E ok \in BOOLEAN :
          IF ok
             THEN /\ th' = [th EXCEPT ![t].pc = "ci_ret", ![t].res = "ok",
                                      ![t].obj = Len(heap) + 1]
                  /\ everCreated' = everCreated \cup {th[t].id}
             ELSE /\ th' = [th EXCEPT ![t].pc = "ci_ret", ![t].res = "createFailed"]
                  /\ UNCHANGED everCreated
    /\ UNCHANGED <<factories, regMu, bootVars, bsVars, plVars, auxVars>>

\* plugin, err := factory.Create(instanceID, config, logger): a PluginFactory may
\* return an error; on success NewPluginInstance and instances[instanceID] = instance
CI_Create(t) ==
    /\ th[t].pc = "ci_create"
    /\ createdWith' = createdWith \cup {th[t].cfg}
    /\ \E ok \in BOOLEAN :
          IF ok
             THEN /\ CI_Register(t)
                  /\ th' = [th EXCEPT ![t].pc = "ci_ret", ![t].res = "ok",
                                      ![t].obj = Len(heap) + 1]
                  /\ everCreated' = everCreated \cup {th[t].id}
             ELSE /\ th' = [th EXCEPT ![t].pc = "ci_ret", ![t].res = "createFailed"]
                  /\ UNCHANGED <<instances, heap, applied, imu, everCreated, bootVars, bsVars, plVars, auxVars>>
    /\ UNCHANGED <<factories, regMu, bootVars, bsVars, plVars, auxVars>>

\* return, and the deferred defaultRegistry.mu.Unlock()
CI_Return(t) ==
    /\ th[t].pc = "ci_ret"
    /\ regMu' = "free"
    /\ th' = [th EXCEPT ![t] = IdleTh]
    /\ UNCHANGED <<factories, instances, heap, applied, imu, createdWith, everCreated, bootVars, bsVars, plVars, auxVars>>

CreateInstance(t) ==
    \/ CI_Call(t)
    \/ CI_Lock(t)
    \/ CI_CheckDup(t)
    \/ CI_Lookup(t)
    \/ CI_Default(t)
    \/ CI_Validate(t)
    \/ CI_Create(t)
    \/ CI_Return(t)

-----------------------------------------------------------------------------
(* registry.RemoveInstance *)

RemoveInstance_Stops(t) ==
    /\ th[t].pc = "idle"
    /\ regMu = "free"
    /\ \E id \in Ids :
          IF instances[id] = 0
             THEN /\ th' = [th EXCEPT ![t] =
                              [IdleTh EXCEPT !.pc = "rm_ret", !.id = id, !.res = "notFound"]]
                  /\ UNCHANGED <<instances, heap>>
             ELSE /\ th' = [th EXCEPT ![t] =
                              [IdleTh EXCEPT !.pc = "rm_ret", !.id = id, !.res = "ok"]]
                  /\ instances' = [instances EXCEPT ![id] = 0]
                  /\ heap' = [heap EXCEPT ![instances[id]].status = "Stopped"]
    /\ UNCHANGED <<factories, applied, regMu, imu, createdWith, everCreated, bootVars, bsVars, plVars, auxVars>>

\* Registry.RemoveInstance: Lock, the lookup, the delete, Unlock
RemoveInstance(t) ==
    /\ th[t].pc = "idle"
    /\ regMu = "free"
    /\ \E id \in Ids :
          IF instances[id] = 0
             THEN /\ th' = [th EXCEPT ![t] =
                              [IdleTh EXCEPT !.pc = "rm_ret", !.id = id, !.res = "notFound"]]
                  /\ UNCHANGED instances
             ELSE /\ th' = [th EXCEPT ![t] =
                              [IdleTh EXCEPT !.pc = "rm_ret", !.id = id, !.res = "ok"]]
                  /\ instances' = [instances EXCEPT ![id] = 0]
    /\ UNCHANGED <<factories, heap, applied, regMu, imu, createdWith, everCreated, bootVars, bsVars, plVars, auxVars>>

RM_Return(t) ==
    /\ th[t].pc = "rm_ret"
    /\ th' = [th EXCEPT ![t] = IdleTh]
    /\ UNCHANGED <<factories, instances, heap, applied, regMu, imu, createdWith, everCreated, bootVars, bsVars, plVars, auxVars>>

-----------------------------------------------------------------------------
(* PluginInstance.UpdateConfig, on any instance the caller holds a pointer to *)

\* pi.mu.Lock()
UC_Lock(t) ==
    /\ th[t].pc = "idle"
    /\ \E o \in Objs, cfg \in Configs \cup {Nil} :
          /\ imu[o] = "free"
          /\ imu' = [imu EXCEPT ![o] = t]
          /\ th' = [th EXCEPT ![t] =
                      [IdleTh EXCEPT !.pc = "uc_validate", !.obj = o, !.cfg = cfg,
                                     !.before = heap[o].config]]
    /\ UNCHANGED <<factories, instances, heap, applied, regMu, createdWith, everCreated, bootVars, bsVars, plVars, auxVars>>

UC_Validate_InstallsFirst(t) ==
    /\ th[t].pc = "uc_validate"
    /\ heap' = [heap EXCEPT ![th[t].obj].config = th[t].cfg]
    /\ IF ValidateConfig(th[t].cfg)
          THEN th' = [th EXCEPT ![t].pc = "uc_reload"]
          ELSE th' = [th EXCEPT ![t].pc = "uc_ret", ![t].res = "invalidConfig"]
    /\ UNCHANGED <<factories, instances, applied, regMu, imu, createdWith, everCreated, bootVars, bsVars, plVars, auxVars>>

\* if err := pi.factory.ValidateConfig(newConfig); err != nil { return error }
\* oldConfig := pi.config; pi.config = newConfig
UC_Validate(t) ==
    /\ th[t].pc = "uc_validate"
    /\ IF ValidateConfig(th[t].cfg)
          THEN /\ heap' = [heap EXCEPT ![th[t].obj].config = th[t].cfg]
               /\ th' = [th EXCEPT ![t].pc = "uc_reload"]
          ELSE /\ th' = [th EXCEPT ![t].pc = "uc_ret", ![t].res = "invalidConfig"]
               /\ UNCHANGED heap
    /\ UNCHANGED <<factories, instances, applied, regMu, imu, createdWith, everCreated, bootVars, bsVars, plVars, auxVars>>

UC_Reload_NoRollback(t) ==
    /\ th[t].pc = "uc_reload"
    /\ \E ok \in BOOLEAN :
          IF ok
             THEN /\ applied' = [applied EXCEPT ![th[t].obj] = th[t].cfg]
                  /\ th' = [th EXCEPT ![t].pc = "uc_ret", ![t].res = "ok",
                                      ![t].reload = "ok"]
             ELSE /\ th' = [th EXCEPT ![t].pc = "uc_ret", ![t].res = "reloadFailed",
                                      ![t].reload = "err"]
                  /\ UNCHANGED applied
    /\ UNCHANGED <<factories, instances, heap, regMu, imu, createdWith, everCreated, bootVars, bsVars, plVars, auxVars>>

\* if err := pi.plugin.Reload(newConfig); err != nil { pi.config = oldConfig; return error }
UC_Reload(t) ==
    /\ th[t].pc = "uc_reload"
    /\ \E ok \in BOOLEAN :
          IF ok
             THEN /\ applied' = [applied EXCEPT ![th[t].obj] = th[t].cfg]
                  /\ th' = [th EXCEPT ![t].pc = "uc_ret", ![t].res = "ok",
                                      ![t].reload = "ok"]
                  /\ UNCHANGED heap
             ELSE /\ heap' = [heap EXCEPT ![th[t].obj].config = th[t].before]
                  /\ th' = [th EXCEPT ![t].pc = "uc_ret", ![t].res = "reloadFailed",
                                      ![t].reload = "err"]
                  /\ UNCHANGED applied
    /\ UNCHANGED <<factories, instances, regMu, imu, createdWith, everCreated, bootVars, bsVars, plVars, auxVars>>

\* return, and the deferred pi.mu.Unlock()
UC_Return(t) ==
    /\ th[t].pc = "uc_ret"
    /\ imu' = [imu EXCEPT ![th[t].obj] = "free"]
    /\ th' = [th EXCEPT ![t] = IdleTh]
    /\ UNCHANGED <<factories, instances, heap, applied, regMu, createdWith, everCreated, bootVars, bsVars, plVars, auxVars>>

UpdateConfig(t) ==
    \/ UC_Lock(t)
    \/ UC_Validate(t)
    \/ UC_Reload(t)
    \/ UC_Return(t)

-----------------------------------------------------------------------------
(* PluginInstance.GetConfig *)

GetConfig_NoRLock(t) ==
    /\ th[t].pc = "idle"
    /\ \E o \in Objs :
          th' = [th EXCEPT ![t] =
                    [IdleTh EXCEPT !.pc = "gc_ret", !.obj = o, !.got = heap[o].config,
                                   !.gotApplied = applied[o]]]
    /\ UNCHANGED <<factories, instances, heap, applied, regMu, imu, createdWith, everCreated, bootVars, bsVars, plVars, auxVars>>

\* pi.mu.RLock(); return pi.config
GetConfig(t) ==
    /\ th[t].pc = "idle"
    /\ \E o \in Objs :
          /\ imu[o] = "free"
          /\ th' = [th EXCEPT ![t] =
                      [IdleTh EXCEPT !.pc = "gc_ret", !.obj = o, !.got = heap[o].config,
                                     !.gotApplied = applied[o]]]
    /\ UNCHANGED <<factories, instances, heap, applied, regMu, imu, createdWith, everCreated, bootVars, bsVars, plVars, auxVars>>

GC_Return(t) ==
    /\ th[t].pc = "gc_ret"
    /\ th' = [th EXCEPT ![t] = IdleTh]
    /\ UNCHANGED <<factories, instances, heap, applied, regMu, imu, createdWith, everCreated, bootVars, bsVars, plVars, auxVars>>

-----------------------------------------------------------------------------

Next ==
    \/ RegisterFactory
    \/ \E t \in Threads :
          \/ CreateInstance(t)
          \/ RemoveInstance(t)
          \/ RM_Return(t)
          \/ UpdateConfig(t)
          \/ GetConfig(t)
          \/ GC_Return(t)

Spec == Init /\ [][Next]_vars

NextCreateOnly ==
    \/ RegisterFactory
    \/ \E t \in Threads : CreateInstance(t)

SpecCreateOnly == Init /\ [][NextCreateOnly]_vars

-----------------------------------------------------------------------------
(* Boot.Shutdown, interruptWithContext, waitWithTimeout, interruptSingleEntry *)

\* no panic has ended the process
Alive == boot.crashed = "no"

\* shutdownCtx.Done() is closed: the aggregate deadline has elapsed (or the ctx given
\* to Shutdown is done), or Shutdown's deferred cancel() has run
CtxDone == boot.fired \/ boot.cancelled

EntryDone_Detached(e) == g[e].ctx = "done"

\* entryCtx.Done() is closed: the per-Entry deadline has elapsed or
\* interruptSingleEntry's deferred cancel() has run (ctx = "done"), or its parent
\* shutdownCtx is done
EntryDone(e) == g[e].ctx = "done" \/ CtxDone

\* wg.Add(delta): the WaitGroup afterwards, or the panic it raises
WgAdd(delta) ==
    LET v == wg.count + delta
    IN  IF v < 0
           THEN [panic |-> "sync: negative WaitGroup counter", wg |-> wg]
        ELSE IF wg.waiters # 0 /\ delta > 0 /\ v = delta
           THEN [panic |-> "sync: WaitGroup misuse: Add called concurrently with Wait",
                 wg |-> wg]
        ELSE IF v > 0 \/ wg.waiters = 0
           THEN [panic |-> "no", wg |-> [wg EXCEPT !.count = v]]
        ELSE [panic |-> "no",
              wg |-> [count |-> 0, waiters |-> 0, sema |-> wg.sema + wg.waiters]]

\* Shutdown is called: shutdownCtx, cancel := context.WithTimeout(ctx, shutdownTimeout)
S_Call ==
    /\ Alive
    /\ boot.pc = "idle"
    /\ boot' = [boot EXCEPT !.pc = "hooks", !.hooksLeft = Hooks]
    /\ UNCHANGED <<wg, g, w, regVars, bsVars, plVars, auxVars>>

\* the aggregate deadline elapses
AggTimeout ==
    /\ Alive
    /\ boot.pc \notin {"idle", "returned"}
    /\ ~boot.fired
    /\ boot' = [boot EXCEPT !.fired = TRUE]
    /\ UNCHANGED <<wg, g, w, regVars, bsVars, plVars, auxVars>>

\* for name, hook := range ListShutdownHooks() { hook() }
S_Hook(h) ==
    /\ Alive
    /\ boot.pc = "hooks"
    /\ h \in boot.hooksLeft
    /\ boot' = [boot EXCEPT !.hooksLeft = @ \ {h}, !.hookRuns[h] = @ + 1]
    /\ UNCHANGED <<wg, g, w, regVars, bsVars, plVars, auxVars>>

S_Interrupt_SkipsHooks ==
    /\ Alive
    /\ boot.pc = "hooks"
    /\ boot' = [boot EXCEPT !.pc = "spawn_user", !.toSpawn = UserEntries]
    /\ UNCHANGED <<wg, g, w, regVars, bsVars, plVars, auxVars>>

\* b.interruptWithContext(shutdownCtx)
S_Interrupt ==
    /\ Alive
    /\ boot.pc = "hooks"
    /\ boot.hooksLeft = {}
    /\ boot' = [boot EXCEPT !.pc = "spawn_user", !.toSpawn = UserEntries]
    /\ UNCHANGED <<wg, g, w, regVars, bsVars, plVars, auxVars>>

\* wg.Add(1); go func() { defer wg.Done(); b.interruptSingleEntry(...) }()
\* a panic of Add is recovered by the deferred syncLog, which exits the process
S_Spawn(e) ==
    /\ Alive
    /\ boot.pc \in {"spawn_user", "spawn_plugin"}
    /\ e \in boot.toSpawn
    /\ IF WgAdd(1).panic # "no"
          THEN /\ boot' = [boot EXCEPT !.crashed = "os.Exit(1)", !.panicIn = "wg.Add"]
               /\ UNCHANGED <<wg, g>>
          ELSE /\ wg' = WgAdd(1).wg
               /\ g' = [g EXCEPT ![e].pc = "start"]
               /\ boot' = [boot EXCEPT !.toSpawn = @ \ {e}]
    /\ UNCHANGED <<w, regVars, bsVars, plVars, auxVars>>

\* waitWithTimeout: done := make(chan struct{}); go func() { wg.Wait(); close(done) }()
S_StartWait(k) ==
    /\ Alive
    /\ boot.pc = "spawn_" \o k
    /\ boot.toSpawn = {}
    /\ boot' = [boot EXCEPT !.pc = "wait_" \o k]
    /\ w' = [w EXCEPT ![k].pc = "start"]
    /\ UNCHANGED <<wg, g, regVars, bsVars, plVars, auxVars>>

\* after the wait of the user pool comes the reset, after that of the plugin pool
\* interruptWithContext and Shutdown return and the deferred cancel() runs
AfterWait(k) ==
    IF k = "user"
       THEN [boot EXCEPT !.pc = "reset"]
       ELSE [boot EXCEPT !.pc = "returned", !.cancelled = TRUE]

S_Select_NoWait(k) ==
    /\ Alive
    /\ boot.pc = "wait_" \o k
    /\ boot' = AfterWait(k)
    /\ UNCHANGED <<wg, g, w, regVars, bsVars, plVars, auxVars>>

\* select { case <-done: ... case <-ctx.Done(): ... }
S_Select(k) ==
    /\ Alive
    /\ boot.pc = "wait_" \o k
    /\ w[k].done \/ CtxDone
    /\ boot' = AfterWait(k)
    /\ UNCHANGED <<wg, g, w, regVars, bsVars, plVars, auxVars>>

\* wg = sync.WaitGroup{}: the variable the goroutines of the user pool still hold
S_Reset ==
    /\ Alive
    /\ boot.pc = "reset"
    /\ wg' = ZeroWaitGroup
    /\ boot' = [boot EXCEPT !.pc = "spawn_plugin", !.toSpawn = PluginEntries]
    /\ UNCHANGED <<g, w, regVars, bsVars, plVars, auxVars>>

W_Wait_NoBlock(k) ==
    /\ Alive
    /\ w[k].pc = "start"
    /\ w' = [w EXCEPT ![k].pc = "exit", ![k].done = TRUE]
    /\ UNCHANGED <<boot, wg, g, regVars, bsVars, plVars, auxVars>>

\* the goroutine of waitWithTimeout reaches wg.Wait(): it returns at once on a zero
\* counter (and closes done), else it registers as a waiter and blocks
W_Wait(k) ==
    /\ Alive
    /\ w[k].pc = "start"
    /\ IF wg.count = 0
          THEN /\ w' = [w EXCEPT ![k].pc = "exit", ![k].done = TRUE]
               /\ UNCHANGED wg
          ELSE /\ w' = [w EXCEPT ![k].pc = "blocked"]
               /\ wg' = [wg EXCEPT !.waiters = @ + 1]
    /\ UNCHANGED <<boot, g, regVars, bsVars, plVars, auxVars>>

\* a blocked wg.Wait() is released; it panics when the WaitGroup is in use again
W_Wake(k) ==
    /\ Alive
    /\ w[k].pc = "blocked"
    /\ wg.sema > 0
    /\ wg' = [wg EXCEPT !.sema = @ - 1]
    /\ IF wg.count # 0 \/ wg.waiters # 0
          THEN /\ boot' = [boot EXCEPT !.crashed = "panic", !.panicIn = "wg.Wait"]
               /\ UNCHANGED w
          ELSE /\ w' = [w EXCEPT ![k].pc = "exit", ![k].done = TRUE]
               /\ UNCHANGED boot
    /\ UNCHANGED <<g, regVars, bsVars, plVars, auxVars>>

\* interruptSingleEntry starts: entryCtx, cancel := context.WithTimeout(ctx, entryTimeout);
\* go func() { entry.Interrupt(entryCtx); close(done) }()
G_Start(e) ==
    /\ Alive
    /\ g[e].pc = "start"
    /\ g' = [g EXCEPT ![e].pc = "select", ![e].ipc = "spawned", ![e].ctx = "live"]
    /\ UNCHANGED <<boot, wg, w, regVars, bsVars, plVars, auxVars>>

I_Invoke_Sequential(e) ==
    /\ Alive
    /\ g[e].ipc = "spawned"
    /\ \A o \in Entries \ {e} : g[o].ipc # "running"
    /\ g' = [g EXCEPT ![e].ipc = "running"]
    /\ UNCHANGED <<boot, wg, w, regVars, bsVars, plVars, auxVars>>

\* entry.Interrupt(entryCtx) is invoked
I_Invoke(e) ==
    /\ Alive
    /\ g[e].ipc = "spawned"
    /\ g' = [g EXCEPT ![e].ipc = "running"]
    /\ UNCHANGED <<boot, wg, w, regVars, bsVars, plVars, auxVars>>

\* entry.Interrupt returns; close(done)
I_Return(e) ==
    /\ Alive
    /\ g[e].ipc = "running"
    /\ g' = [g EXCEPT ![e].ipc = "returned"]
    /\ UNCHANGED <<boot, wg, w, regVars, bsVars, plVars, auxVars>>

\* the per-Entry deadline elapses
EntryTimeout(e) ==
    /\ Alive
    /\ g[e].ctx = "live"
    /\ g' = [g EXCEPT ![e].ctx = "done"]
    /\ UNCHANGED <<boot, wg, w, regVars, bsVars, plVars, auxVars>>

G_Select_Kills(e) ==
    /\ Alive
    /\ g[e].pc = "select"
    /\ g[e].ipc = "returned" \/ EntryDone(e)
    /\ g' = [g EXCEPT ![e].pc = "wgdone", ![e].ctx = "done",
                      ![e].ipc = IF @ = "returned" THEN @ ELSE "killed"]
    /\ UNCHANGED <<boot, wg, w, regVars, bsVars, plVars, auxVars>>

\* select { case <-done: ... case <-entryCtx.Done(): ... }; the deferred cancel() runs
\* as interruptSingleEntry returns
G_Select(e) ==
    /\ Alive
    /\ g[e].pc = "select"
    /\ g[e].ipc = "returned" \/ EntryDone(e)
    /\ g' = [g EXCEPT ![e].pc = "wgdone", ![e].ctx = "done"]
    /\ UNCHANGED <<boot, wg, w, regVars, bsVars, plVars, auxVars>>

\* the deferred wg.Done(); its panic is recovered by nobody and ends the process
G_Done(e) ==
    /\ Alive
    /\ g[e].pc = "wgdone"
    /\ IF WgAdd(-1).panic # "no"
          THEN /\ boot' = [boot EXCEPT !.crashed = "panic", !.panicIn = "wg.Done"]
               /\ UNCHANGED <<wg, g>>
          ELSE /\ wg' = WgAdd(-1).wg
               /\ g' = [g EXCEPT ![e].pc = "exit"]
               /\ UNCHANGED boot
    /\ UNCHANGED <<w, regVars, bsVars, plVars, auxVars>>

\* every step of the shutdown but the return of an Interrupt
NextBootCore ==
    \/ S_Call
    \/ AggTimeout
    \/ S_Interrupt
    \/ S_Reset
    \/ \E h \in Hooks : S_Hook(h)
    \/ \E k \in Pools : S_StartWait(k) \/ S_Select(k) \/ W_Wait(k) \/ W_Wake(k)
    \/ \E e \in Entries :
          \/ S_Spawn(e)
          \/ G_Start(e)
          \/ I_Invoke(e)
          \/ EntryTimeout(e)
          \/ G_Select(e)
          \/ G_Done(e)

NextBoot ==
    \/ NextBootCore
    \/ \E e \in Entries : I_Return(e)

SpecBoot == Init /\ [][NextBoot]_vars

\* every goroutine that can take a step takes it, every hook returns and every armed
\* timer fires
FairBoot ==
    /\ WF_vars(S_Call)
    /\ WF_vars(AggTimeout)
    /\ WF_vars(S_Interrupt)
    /\ WF_vars(S_Reset)
    /\ \A h \in Hooks : WF_vars(S_Hook(h))
    /\ \A k \in Pools :
          WF_vars(S_StartWait(k)) /\ WF_vars(S_Select(k)) /\ WF_vars(W_Wait(k)) /\ WF_vars(W_Wake(k))
    /\ \A e \in Entries :
          /\ WF_vars(S_Spawn(e))
          /\ WF_vars(G_Start(e))
          /\ WF_vars(I_Invoke(e))
          /\ WF_vars(EntryTimeout(e))
          /\ WF_vars(G_Select(e))
          /\ WF_vars(G_Done(e))

\* a shutdown whose Entries all block in Interrupt forever, fairly scheduled
FairSpecBootBlocked == Init /\ [][NextBootCore]_vars /\ FairBoot

\* a shutdown hook panics: Shutdown has deferred cancel() only, so the panic leaves
\* Shutdown and WaitForShutdownSig unrecovered and the runtime ends the process
S_HookPanic(h) ==
    /\ Alive
    /\ boot.pc = "hooks"
    /\ h \in boot.hooksLeft
    /\ boot' = [boot EXCEPT !.hookRuns[h] = @ + 1, !.cancelled = TRUE,
                            !.crashed = "panic", !.panicIn = "hook"]
    /\ UNCHANGED <<wg, g, w, regVars, bsVars, plVars, auxVars>>

\* entry.Interrupt(entryCtx) panics: it runs in the goroutine interruptSingleEntry
\* started, which defers nothing, so the runtime ends the process
I_Panic(e) ==
    /\ Alive
    /\ g[e].ipc = "running"
    /\ boot' = [boot EXCEPT !.crashed = "panic", !.panicIn = "Interrupt"]
    /\ UNCHANGED <<wg, g, w, regVars, bsVars, plVars, auxVars>>

NextBootPanic ==
    \/ NextBoot
    \/ \E h \in Hooks : S_HookPanic(h)
    \/ \E e \in Entries : I_Panic(e)

SpecBootPanic == Init /\ [][NextBootPanic]_vars

-----------------------------------------------------------------------------
(* Boot.AddHookFuncBeforeBootstrap / AddHookFuncAfterBootstrap, Boot.Bootstrap *)

\* hookFuncM.addFunc: the keys with a function after m[entryType][entryName] = f
addFunc(m, k) == m \cup {k}

\* hookFuncM.getFunc: the registered function, or the no-op it returns otherwise
getFunc(m, k) == IF k \in m THEN "f" ELSE "noop"

\* os.Exit(1) has not been called from Bootstrap
BsAlive == bs.crashed = "no"

\* b.AddHookFuncBeforeBootstrap(type, name, f), called before Bootstrap: a nil f
\* is ignored
AddHookFuncBeforeBootstrap(k) ==
    /\ bs.pc = "idle"
    /\ \E f \in HookFuncs :
          hookF' = IF f = "nil" THEN hookF ELSE [hookF EXCEPT !.before = addFunc(@, k)]
    /\ UNCHANGED <<bs, regVars, bootVars, plVars, auxVars>>

AddHookFuncAfterBootstrap(k) ==
    /\ bs.pc = "idle"
    /\ \E f \in HookFuncs :
          hookF' = IF f = "nil" THEN hookF ELSE [hookF EXCEPT !.after = addFunc(@, k)]
    /\ UNCHANGED <<bs, regVars, bootVars, plVars, auxVars>>

\* Bootstrap is called: defer b.syncLog(); the range over b.pluginEntries begins
B_Call ==
    /\ bs.pc = "idle"
    /\ bs' = [bs EXCEPT !.pc = "loop", !.pool = "plugin", !.left = PluginEntries]
    /\ UNCHANGED <<hookF, regVars, bootVars, plVars, auxVars>>

\* the range statement yields the next Entry of the pool, in map order (any order)
B_Next(e) ==
    /\ BsAlive
    /\ bs.pc = "loop"
    /\ e \in bs.left
    /\ bs' = [bs EXCEPT !.pc = "before", !.cur = e, !.left = @ \ {e}]
    /\ UNCHANGED <<hookF, regVars, bootVars, plVars, auxVars>>

B_NextPool_Early ==
    /\ BsAlive
    /\ bs.pc = "loop"
    /\ bs.pool = "plugin"
    /\ bs' = [bs EXCEPT !.pool = "user", !.left = UserEntries]
    /\ UNCHANGED <<hookF, regVars, bootVars, plVars, auxVars>>

\* the range over b.pluginEntries is exhausted: the range over b.userEntries begins
B_NextPool ==
    /\ BsAlive
    /\ bs.pc = "loop"
    /\ bs.pool = "plugin"
    /\ bs.left = {}
    /\ bs' = [bs EXCEPT !.pool = "user", !.left = UserEntries]
    /\ UNCHANGED <<hookF, regVars, bootVars, plVars, auxVars>>

\* the range over b.userEntries is exhausted: Bootstrap returns, the deferred
\* syncLog finds nothing to recover
B_Return ==
    /\ BsAlive
    /\ bs.pc = "loop"
    /\ bs.pool = "user"
    /\ bs.left = {}
    /\ bs' = [bs EXCEPT !.pc = "returned"]
    /\ UNCHANGED <<hookF, regVars, bootVars, plVars, auxVars>>

B_BeforeCall_Noop ==
    /\ BsAlive
    /\ bs.pc = "before"
    /\ bs' = [bs EXCEPT !.pc = "bootstrap"]
    /\ UNCHANGED <<hookF, regVars, bootVars, plVars, auxVars>>

\* b.beforeHookF.getFunc(entryType, entryName)(ctx) is invoked; the no-op returns
\* at once
B_BeforeCall ==
    /\ BsAlive
    /\ bs.pc = "before"
    /\ IF getFunc(hookF.before, EntryKey(bs.cur)) = "f"
          THEN bs' = [bs EXCEPT !.pc = "in_before", !.phase[bs.cur] = "in_before",
                                !.nBefore[EntryKey(bs.cur)] = @ + 1]
          ELSE bs' = [bs EXCEPT !.pc = "bootstrap"]
    /\ UNCHANGED <<hookF, regVars, bootVars, plVars, auxVars>>

\* the before-hook returns
B_BeforeReturn ==
    /\ BsAlive
    /\ bs.pc = "in_before"
    /\ bs' = [bs EXCEPT !.pc = "bootstrap", !.phase[bs.cur] = "before_done",
                        !.ranBefore = @ \cup {bs.cur}]
    /\ UNCHANGED <<hookF, regVars, bootVars, plVars, auxVars>>

\* entry.Bootstrap(ctx) is invoked
B_BootstrapCall ==
    /\ BsAlive
    /\ bs.pc = "bootstrap"
    /\ bs' = [bs EXCEPT !.pc = "in_bootstrap", !.phase[bs.cur] = "in_bootstrap"]
    /\ UNCHANGED <<hookF, regVars, bootVars, plVars, auxVars>>

\* entry.Bootstrap(ctx) returns
B_BootstrapReturn ==
    /\ BsAlive
    /\ bs.pc = "in_bootstrap"
    /\ bs' = [bs EXCEPT !.pc = "after", !.phase[bs.cur] = "bootstrapped",
                        !.booted = @ \cup {bs.cur}]
    /\ UNCHANGED <<hookF, regVars, bootVars, plVars, auxVars>>

\* b.afterHookF.getFunc(entryType, entryName)(ctx) is invoked; the no-op returns
\* at once and the loop goes on
B_AfterCall ==
    /\ BsAlive
    /\ bs.pc = "after"
    /\ IF getFunc(hookF.after, EntryKey(bs.cur)) = "f"
          THEN bs' = [bs EXCEPT !.pc = "in_after", !.phase[bs.cur] = "in_after",
                                !.nAfter[EntryKey(bs.cur)] = @ + 1]
          ELSE bs' = [bs EXCEPT !.pc = "loop", !.phase[bs.cur] = "done", !.cur = "none"]
    /\ UNCHANGED <<hookF, regVars, bootVars, plVars, auxVars>>

\* the after-hook returns
B_AfterReturn ==
    /\ BsAlive
    /\ bs.pc = "in_after"
    /\ bs' = [bs EXCEPT !.pc = "loop", !.phase[bs.cur] = "done", !.cur = "none",
                        !.ranAfter = @ \cup {bs.cur}]
    /\ UNCHANGED <<hookF, regVars, bootVars, plVars, auxVars>>

\* the running hook or Bootstrap panics: the stack unwinds to the deferred syncLog
B_Panic ==
    /\ BsAlive
    /\ bs.pc \in {"in_before", "in_bootstrap", "in_after"}
    /\ bs' = [bs EXCEPT !.pc = "panicking", !.panicIn = bs.pc]
    /\ UNCHANGED <<hookF, regVars, bootVars, plVars, auxVars>>

B_SyncLog_Resumes ==
    /\ BsAlive
    /\ bs.pc = "panicking"
    /\ bs' = [bs EXCEPT !.pc = "loop", !.cur = "none"]
    /\ UNCHANGED <<hookF, regVars, bootVars, plVars, auxVars>>

\* syncLog: recover() yields the panic, it is logged with the stack, os.Exit(1)
B_SyncLog ==
    /\ BsAlive
    /\ bs.pc = "panicking"
    /\ bs' = [bs EXCEPT !.pc = "exited", !.crashed = "os.Exit(1)"]
    /\ UNCHANGED <<hookF, regVars, bootVars, plVars, auxVars>>

NextBootstrap ==
    \/ \E k \in Keys : AddHookFuncBeforeBootstrap(k) \/ AddHookFuncAfterBootstrap(k)
    \/ B_Call
    \/ \E e \in Entries : B_Next(e)
    \/ B_NextPool
    \/ B_Return
    \/ B_BeforeCall
    \/ B_BeforeReturn
    \/ B_BootstrapCall
    \/ B_BootstrapReturn
    \/ B_AfterCall
    \/ B_AfterReturn
    \/ B_Panic
    \/ B_SyncLog

SpecBootstrap == Init /\ [][NextBootstrap]_vars

-----------------------------------------------------------------------------
(* The announcement Plugin: updateStatus, Start, Stop, Reload, and the consumer *)
(* of StatusNotify(). Each method holds p.mu from entry to return.             *)

updateStatus_Always(p, newStatus, err) ==
    IF Len(p.ch) < StatusChCap
       THEN [p EXCEPT !.status = newStatus,
                      !.ch = Append(@, StatusEvent(newStatus, err))]
       ELSE [p EXCEPT !.status = newStatus, !.dropped = @ + 1]

updateStatus_FullKeepsStatus(p, newStatus, err) ==
    IF p.status # newStatus /\ Len(p.ch) < StatusChCap
       THEN [p EXCEPT !.status = newStatus,
                      !.ch = Append(@, StatusEvent(newStatus, err))]
       ELSE p

\* Plugin.updateStatus (err is "nil" or "error"): on a change of status, set it and send the event unless
\* the channel is full
updateStatus(p, newStatus, err) ==
    IF p.status # newStatus
       THEN IF Len(p.ch) < StatusChCap
               THEN [p EXCEPT !.status = newStatus,
                              !.ch = Append(@, StatusEvent(newStatus, err))]
               ELSE [p EXCEPT !.status = newStatus, !.dropped = @ + 1]
       ELSE p

\* a call of method op has returned err ("nil" or "error")
Returned(op, err) == [op |-> op, err |-> err]

\* Monitor.Start: its error, "nil" when there is none
MonitorStart(enabled) == IF enabled THEN "nil" ELSE "error"

\* Monitor.StopWithTimeout: nil at once when already stopped; else the goroutines
\* exit in time (nil) or the timeout comes first (error)
StopWithTimeout(monitor) ==
    IF monitor = "stopped" THEN {"nil"} ELSE {"nil", "error"}

Start_NoStatus ==
    /\ IF ~pl.enabled
          THEN pl' = pl
          ELSE pl' = [pl EXCEPT !.monitor = "running"]
    /\ ret' = Returned("Start", "nil")
    /\ UNCHANGED <<regVars, bootVars, bsVars, auxVars>>

\* Plugin.Start
Start ==
    /\ IF ~pl.enabled
          THEN pl' = pl /\ ret' = Returned("Start", "nil")
          ELSE LET err == MonitorStart(pl.enabled)
                   q   == [pl EXCEPT !.monitor = "running"]
               IN  IF err # "nil"
                      THEN /\ pl' = updateStatus(q, "Error", err)
                           /\ ret' = Returned("Start", err)
                      ELSE /\ pl' = updateStatus(q, "Running", "nil")
                           /\ ret' = Returned("Start", "nil")
    /\ pl'.dropped <= MaxDrops
    /\ UNCHANGED <<regVars, bootVars, bsVars, auxVars>>

\* Plugin.Stop
Stop ==
    /\ IF pl.monitor # "nil"
          THEN \E err \in StopWithTimeout(pl.monitor) :
                  IF err # "nil"
                     THEN /\ pl' = updateStatus([pl EXCEPT !.monitor = "stopped"],
                                                "Error", err)
                          /\ ret' = Returned("Stop", err)
                     ELSE /\ pl' = updateStatus([pl EXCEPT !.monitor = "nil"],
                                                "Stopped", "nil")
                          /\ ret' = Returned("Stop", "nil")
          ELSE /\ pl' = updateStatus(pl, "Stopped", "nil")
               /\ ret' = Returned("Stop", "nil")
    /\ pl'.dropped <= MaxDrops
    /\ UNCHANGED <<regVars, bootVars, bsVars, auxVars>>

\* Plugin.Reload(newConfig); Monitor.Stop returns nil
Reload(newConfig) ==
    /\ IF newConfig = "other"
          THEN /\ pl' = updateStatus(pl, "Error", "error")
               /\ ret' = Returned("Reload", "error")
          ELSE LET isRunning == pl.monitor # "nil"
                   oldStatus == pl.status
                   enabled   == newConfig = "enabled"
               IN  IF isRunning /\ enabled
                      THEN LET err == MonitorStart(enabled)
                           IN  IF err # "nil"
                                  THEN /\ pl' = updateStatus([pl EXCEPT !.monitor = "running"],
                                                             "Error", err)
                                       /\ ret' = Returned("Reload", err)
                                  ELSE /\ pl' = updateStatus([pl EXCEPT !.enabled = enabled,
                                                                        !.monitor = "running"],
                                                             "Running", "nil")
                                       /\ ret' = Returned("Reload", "nil")
                      ELSE LET q == [pl EXCEPT !.enabled = enabled, !.monitor = "nil"]
                           IN  /\ IF oldStatus = "Running"
                                     THEN pl' = updateStatus(q, "Stopped", "nil")
                                     ELSE pl' = q
                               /\ ret' = Returned("Reload", "nil")
    /\ pl'.dropped <= MaxDrops
    /\ UNCHANGED <<regVars, bootVars, bsVars, auxVars>>

\* the consumer receives one event from StatusNotify()
Receive ==
    /\ Len(pl.ch) > 0
    /\ pl' = [pl EXCEPT !.ch = Tail(@), !.prev = pl.last, !.last = Head(pl.ch).status]
    /\ UNCHANGED ret
    /\ UNCHANGED <<regVars, bootVars, bsVars, auxVars>>

NextPlugin ==
    \/ Start
    \/ Stop
    \/ \E c \in ReloadArgs : Reload(c)
    \/ Receive

SpecPlugin == Init /\ [][NextPlugin]_vars

\* the same calls when nothing ever receives from StatusNotify()
NextPluginNoConsumer ==
    \/ Start
    \/ Stop
    \/ \E c \in ReloadArgs : Reload(c)

SpecPluginNoConsumer == Init /\ [][NextPluginNoConsumer]_vars

-----------------------------------------------------------------------------
(* The template Plugin: Start, Stop, Reload and the consumer of StatusNotify() *)

\* the frame of a template Plugin step
TemplateFrame == UNCHANGED <<regVars, bootVars, bsVars, plVars, instVars, ctxVars, lcVars, rfVars, nbVars>>

\* template Plugin.Start
T_Start ==
    /\ IF tp.running
          THEN tp' = [tp EXCEPT !.op = "Start", !.err = "error"]
          ELSE IF ~tp.cfg.Enabled
                  THEN tp' = [tp EXCEPT !.op = "Start", !.err = "nil"]
                  ELSE tp' = [updateStatus([tp EXCEPT !.running = TRUE], "Running", "nil")
                                 EXCEPT !.op = "Start", !.err = "nil"]
    /\ TemplateFrame

\* template Plugin.Stop: close(p.stopCh) panics when the channel is closed already
T_Stop ==
    /\ IF ~tp.running
          THEN tp' = [tp EXCEPT !.op = "Stop", !.err = "nil"]
          ELSE IF tp.stopCh = "closed"
                  THEN tp' = [tp EXCEPT !.op = "Stop", !.err = "panic"]
                  ELSE tp' = [updateStatus([tp EXCEPT !.stopCh = "closed",
                                                      !.running = FALSE],
                                           "Stopped", "nil")
                                 EXCEPT !.op = "Stop", !.err = "nil"]
    /\ TemplateFrame

\* template Plugin.Reload(newCfg)
T_Reload(newCfg) ==
    /\ IF newCfg.typ # "*config.Config"
          THEN tp' = [tp EXCEPT !.op = "Reload", !.err = "error"]
          ELSE tp' = [tp EXCEPT !.cfg = newCfg, !.op = "Reload", !.err = "nil"]
    /\ TemplateFrame

\* the consumer receives one event from the template Plugin's StatusNotify()
T_Receive ==
    /\ Len(tp.ch) > 0
    /\ tp' = [tp EXCEPT !.ch = Tail(@), !.prev = tp.last, !.last = Head(tp.ch).status]
    /\ TemplateFrame

NextTemplate ==
    \/ T_Start
    \/ T_Stop
    \/ \E c \in TemplateReloadArgs : T_Reload(c)
    \/ T_Receive

SpecTemplate == Init /\ [][NextTemplate]_vars

-----------------------------------------------------------------------------
(* A PluginInstance wrapping an announcement Plugin, driven through the wrapper: *)
(* CreateInstance, then UpdateConfig calls by one goroutine and Start / Stop    *)
(* calls by another. Plugin methods hold p.mu from entry to return and are      *)
(* given as the Plugin they leave and the error they return.                    *)

InstanceFrame == UNCHANGED <<regVars, bootVars, bsVars, plVars, tpVars, ctxVars, lcVars, rfVars, nbVars>>

\* Plugin.Start on Plugin p: p.monitor = NewMonitor(...) drops the reference to the
\* Monitor held before, whatever its state
PluginStart(p) ==
    IF ~p.cfg.Enabled
       THEN [p |-> p, err |-> "nil"]
       ELSE LET err == MonitorStart(p.cfg.Enabled)
                q   == [p EXCEPT !.monitor = NewMonitor(p.cfg),
                                 !.orphans = IF p.monitor.state = "running"
                                                THEN @ \cup {p.monitor.cfg} ELSE @]
            IN  IF err # "nil"
                   THEN [p |-> [q EXCEPT !.status = "Error"], err |-> err]
                   ELSE [p |-> [q EXCEPT !.status = "Running"], err |-> "nil"]

\* Plugin.Stop on Plugin p: the outcomes
PluginStop(p) ==
    IF p.monitor.state # "nil"
       THEN {IF err # "nil"
                THEN [p |-> [p EXCEPT !.monitor.state = "stopped", !.status = "Error"],
                      err |-> err]
                ELSE [p |-> [p EXCEPT !.monitor = NoMonitor, !.status = "Stopped"],
                      err |-> "nil"] : err \in StopWithTimeout(p.monitor.state)}
       ELSE {[p |-> [p EXCEPT !.status = "Stopped"], err |-> "nil"]}

PluginReload_KeepsCfg(p, newConfig) ==
    IF newConfig.typ # "*config.Config"
       THEN [p |-> [p EXCEPT !.status = "Error"], err |-> "error"]
       ELSE [p |-> p, err |-> "nil"]

\* Plugin.Reload(newConfig) on Plugin p
PluginReload(p, newConfig) ==
    IF newConfig.typ # "*config.Config"
       THEN [p |-> [p EXCEPT !.status = "Error"], err |-> "error"]
       ELSE LET isRunning == p.monitor.state # "nil"
                oldCfg    == p.cfg
                oldStatus == p.status
            IN  IF isRunning /\ newConfig.Enabled
                   THEN LET err == MonitorStart(newConfig.Enabled)
                        IN  IF err # "nil"
                               THEN [p |-> [p EXCEPT !.cfg = oldCfg,
                                                     !.monitor = NewMonitor(oldCfg),
                                                     !.status = "Error"],
                                     err |-> err]
                               ELSE [p |-> [p EXCEPT !.cfg = newConfig,
                                                     !.monitor = NewMonitor(newConfig),
                                                     !.status = "Running"],
                                     err |-> "nil"]
                   ELSE [p |-> [p EXCEPT !.cfg = newConfig,
                                         !.monitor = NoMonitor,
                                         !.status = IF oldStatus = "Running"
                                                       THEN "Stopped" ELSE @],
                         err |-> "nil"]

\* Registry.CreateInstance with a config that passes ValidateConfig: Factory.Create
\* and NewPluginInstance are given the same config
PI_Create(config) ==
    /\ ~wi.made
    /\ ValidateConfig(config)
    /\ wi' = [wi EXCEPT !.made = TRUE, !.config = config, !.p.cfg = config,
                        !.op = "CreateInstance", !.err = "nil"]
    /\ InstanceFrame

\* PluginInstance.UpdateConfig(newConfig): pi.mu.Lock and ValidateConfig
PI_UC_Validate(newConfig) ==
    /\ wi.made /\ wi.pc = "idle"
    /\ IF ~ValidateConfig(newConfig)
          THEN wi' = [wi EXCEPT !.op = "UpdateConfig", !.err = "error"]
          ELSE wi' = [wi EXCEPT !.pc = "validated", !.arg = newConfig]
    /\ InstanceFrame

\* PluginInstance.UpdateConfig: oldConfig := pi.config; pi.config = newConfig
PI_UC_Install ==
    /\ wi.pc = "validated"
    /\ wi' = [wi EXCEPT !.pc = "installed", !.old = wi.config, !.config = wi.arg]
    /\ InstanceFrame

\* PluginInstance.UpdateConfig: pi.plugin.Reload(newConfig), the rollback, the return
PI_UC_Reload ==
    /\ wi.pc = "installed"
    /\ LET r == PluginReload(wi.p, wi.arg)
       IN  IF r.err # "nil"
              THEN wi' = [wi EXCEPT !.pc = "idle", !.config = wi.old, !.p = r.p,
                                   !.op = "UpdateConfig", !.err = r.err]
              ELSE wi' = [wi EXCEPT !.pc = "idle", !.p = r.p,
                                   !.op = "UpdateConfig", !.err = "nil"]
    /\ InstanceFrame

\* PluginInstance.Start
PI_Start ==
    /\ wi.made
    /\ LET r == PluginStart(wi.p)
       IN  wi' = [wi EXCEPT !.p = r.p, !.op = "Start", !.err = r.err]
    /\ InstanceFrame

\* PluginInstance.Stop
PI_Stop ==
    /\ wi.made
    /\ \E r \in PluginStop(wi.p) :
          wi' = [wi EXCEPT !.p = r.p, !.op = "Stop", !.err = r.err]
    /\ InstanceFrame

NextInstance ==
    \/ \E c \in InstConfigs : PI_Create(c)
    \/ \E c \in InstConfigs : PI_UC_Validate(c)
    \/ PI_UC_Install
    \/ PI_UC_Reload
    \/ PI_Start
    \/ PI_Stop

SpecInstance == Init /\ [][NextInstance]_vars

-----------------------------------------------------------------------------
(* The AppContext and a caller that keeps and mutates what the List calls      *)
(* return. A map result is a reference: "copy" to a map made for the caller,   *)
(* "ctx" to the map of the AppContext. A slice result is a length and a        *)
(* backing array, shared with the AppContext until append moves the            *)
(* AppContext's slice to a larger array.                                        *)

ContextFrame == UNCHANGED <<regVars, bootVars, bsVars, plVars, tpVars, instVars, lcVars, rfVars, nbVars>>

\* AppContext.RegisterEntry
RegisterEntry(k, e) ==
    /\ ac' = [ac EXCEPT !.entries[k] = e]
    /\ UNCHANGED hd
    /\ ContextFrame

\* AppContext.RemoveEntry
RemoveEntry(k) ==
    /\ ac' = [ac EXCEPT !.entries[k] = "none"]
    /\ UNCHANGED hd
    /\ ContextFrame

\* AppContext.AddShutdownHook
AddShutdownHook(h) ==
    /\ ac' = [ac EXCEPT !.shutdownHooks[h] = "f"]
    /\ UNCHANGED hd
    /\ ContextFrame

\* append(s, x) of Go on a slice of length len over the array arr: in place when
\* the capacity allows, else into a new array of twice the capacity
GoAppend(arr, len, x) ==
    IF len < Len(arr)
       THEN [arr |-> [arr EXCEPT ![len + 1] = x], moved |-> FALSE]
       ELSE LET cap == IF Len(arr) = 0 THEN 1 ELSE 2 * Len(arr)
            IN  [arr |-> [i \in 1..cap |-> IF i <= len THEN arr[i]
                                           ELSE IF i = len + 1 THEN x ELSE "nil"],
                 moved |-> TRUE]

\* AppContext.RegisterPluginEntryRegFunc / RegisterUserEntryRegFunc: when append
\* moves the slice, a result the caller holds keeps the old array for itself
RegisterEntryRegFunc(fam) ==
    /\ ac.len[fam] < MaxRegFuncs
    /\ LET r == GoAppend(ac.arr[fam], ac.len[fam], "f")
       IN  /\ ac' = [ac EXCEPT !.arr[fam] = r.arr, !.len[fam] = @ + 1]
           /\ IF r.moved /\ hd.funcs.shared /\ hd.funcs.fam = fam
                 THEN hd' = [hd EXCEPT !.funcs.shared = FALSE,
                                       !.funcs.own = ac.arr[fam]]
                 ELSE UNCHANGED hd
    /\ ContextFrame

\* AppContext.ListEntries: a new map filled from ctx.entries
ListEntries ==
    /\ hd' = [hd EXCEPT !.entries = [ref |-> "copy", val |-> ac.entries]]
    /\ UNCHANGED ac
    /\ ContextFrame

\* AppContext.ListEntriesByType: a new map filled from ctx.entries[entryType]
ListEntriesByType(entryType) ==
    /\ hd' = [hd EXCEPT !.entries =
                 [ref |-> "copy",
                  val |-> [k \in CtxKeys |-> IF k[1] = entryType THEN ac.entries[k]
                                             ELSE "none"]]]
    /\ UNCHANGED ac
    /\ ContextFrame

\* AppContext.ListShutdownHooks: a new map filled from ctx.shutdownHooks
ListShutdownHooks ==
    /\ hd' = [hd EXCEPT !.hooks = [ref |-> "copy", val |-> ac.shutdownHooks]]
    /\ UNCHANGED ac
    /\ ContextFrame

\* AppContext.ListPluginEntryRegFunc / ListUserEntryRegFunc: the slice
\* ctx.regFuncs[fam] itself
ListEntryRegFunc(fam) ==
    /\ hd' = [hd EXCEPT !.funcs = [fam |-> fam, shared |-> ac.len[fam] > 0,
                                   len |-> ac.len[fam], own |-> <<>>]]
    /\ UNCHANGED ac
    /\ ContextFrame

\* the caller stores into or deletes from the entries map it holds: m[k] = v
Caller_SetEntry(k, v) ==
    /\ hd.entries.ref # "none"
    /\ IF hd.entries.ref = "ctx"
          THEN ac' = [ac EXCEPT !.entries[k] = v] /\ UNCHANGED hd
          ELSE hd' = [hd EXCEPT !.entries.val[k] = v] /\ UNCHANGED ac
    /\ ContextFrame

\* the caller stores into or deletes from the hooks map it holds
Caller_SetHook(h, v) ==
    /\ hd.hooks.ref # "none"
    /\ IF hd.hooks.ref = "ctx"
          THEN ac' = [ac EXCEPT !.shutdownHooks[h] = v] /\ UNCHANGED hd
          ELSE hd' = [hd EXCEPT !.hooks.val[h] = v] /\ UNCHANGED ac
    /\ ContextFrame

\* the caller assigns an element of the slice it holds: fs[i] = x
Caller_SetFunc(i) ==
    /\ i \in 1..hd.funcs.len
    /\ IF hd.funcs.shared
          THEN ac' = [ac EXCEPT !.arr[hd.funcs.fam][i] = "x"] /\ UNCHANGED hd
          ELSE hd' = [hd EXCEPT !.funcs.own[i] = "x"] /\ UNCHANGED ac
    /\ ContextFrame

\* the calls that change the AppContext
ContextWrite ==
    \/ \E k \in CtxKeys : RegisterEntry(k, "e") \/ RemoveEntry(k)
    \/ \E h \in Hooks : AddShutdownHook(h)
    \/ \E fam \in RegFamilies : RegisterEntryRegFunc(fam)

\* the read operations
ContextRead ==
    \/ ListEntries
    \/ \E t \in {k[1] : k \in CtxKeys} : ListEntriesByType(t)
    \/ ListShutdownHooks
    \/ \E fam \in RegFamilies : ListEntryRegFunc(fam)

\* the caller mutates a collection a read operation returned
CallerWrite ==
    \/ \E k \in CtxKeys, v \in {"none", "x"} : Caller_SetEntry(k, v)
    \/ \E h \in Hooks, v \in {"none", "x"} : Caller_SetHook(h, v)
    \/ \E i \in 1..MaxRegFuncs : Caller_SetFunc(i)

NextContext == ContextWrite \/ ContextRead \/ CallerWrite

SpecContext == Init /\ [][NextContext]_vars

\* what the AppContext holds: entries, hooks, and the elements of each regFuncs slice
ContextState ==
    <<ac.entries, ac.shutdownHooks,
      [f \in RegFamilies |-> SubSeq(ac.arr[f], 1, ac.len[f])]>>

\* what the caller sees in the results it holds
HeldState ==
    <<IF hd.entries.ref = "ctx" THEN ac.entries ELSE hd.entries.val,
      IF hd.hooks.ref = "ctx" THEN ac.shutdownHooks ELSE hd.hooks.val,
      IF hd.funcs.shared THEN SubSeq(ac.arr[hd.funcs.fam], 1, hd.funcs.len)
                         ELSE SubSeq(hd.funcs.own, 1, hd.funcs.len)>>

-----------------------------------------------------------------------------
(* The Components over the life of one Boot: Boot.Bootstrap and Boot.Shutdown   *)
(* called any number of times, and Reload calls on the Components. A monitor or *)
(* plugin is "nil", "idle" (a plugin created but not running), "running" or     *)
(* "stopped".                                                                    *)

LifecycleFrame ==
    UNCHANGED <<regVars, bootVars, bsVars, plVars, tpVars, instVars, ctxVars, rfVars,
                nbVars>>

AnnBootstrap_IgnoresEnabled(c) == [c EXCEPT !.mon = "running"]

\* AnnouncementEntry.Bootstrap
AnnBootstrap(c) ==
    IF ~c.cfg THEN c ELSE [c EXCEPT !.mon = "running"]

\* AnnouncementEntry.Interrupt: StopWithTimeout (its error is only logged), then
\* e.monitor = nil
AnnInterrupt(c) ==
    IF c.mon # "nil" THEN [c EXCEPT !.mon = "nil"] ELSE c

\* AnnouncementEntry.Reload(newCfg): Monitor.Stop, the new config, a new Monitor
\* when one was attached and the new config is enabled
AnnReload(c, newCfg) ==
    LET wasRunning == c.mon # "nil"
    IN  IF wasRunning /\ newCfg
           THEN [cfg |-> newCfg, mon |-> "running"]
           ELSE [cfg |-> newCfg, mon |-> IF wasRunning THEN "stopped" ELSE "nil"]

\* TemplateEntry.Bootstrap: NewPlugin and Plugin.Start, which starts nothing for
\* a disabled config
TmplBootstrap(c) ==
    IF ~c.enabled THEN c
    ELSE [c EXCEPT !.mon = IF c.cfg THEN "running" ELSE "idle"]

\* TemplateEntry.Interrupt: Plugin.Stop, which returns at once unless running
TmplInterrupt(c) ==
    IF ~c.enabled \/ c.mon = "nil" THEN c
    ELSE [c EXCEPT !.mon = IF c.mon = "running" THEN "stopped" ELSE @]

\* TemplateEntry.Reload(newCfg): e.cfg and the plugin's cfg
TmplReload(c, newCfg) == [c EXCEPT !.cfg = newCfg]

\* Boot.Bootstrap is called, no other Bootstrap being under way
LB_Call ==
    /\ lc.todo = {}
    /\ lc' = [lc EXCEPT !.todo = AnnEntries \cup TmplEntries]
    /\ LifecycleFrame

\* Boot.Bootstrap: entry.Bootstrap(ctx) on the next Component of its range loops
LB_Entry(e) ==
    /\ e \in lc.todo
    /\ lc' = [lc EXCEPT !.todo = @ \ {e},
                        !.bootstrapped = @ \cup {e},
                        !.c[e] = IF e \in AnnEntries THEN AnnBootstrap(@)
                                                     ELSE TmplBootstrap(@)]
    /\ LifecycleFrame

\* Boot.Shutdown is called, once the Interrupts of an earlier Shutdown have been
\* invoked: one goroutine per Component will invoke its Interrupt
LS_Call ==
    /\ lc.pending = {}
    /\ lc' = [lc EXCEPT !.pending = AnnEntries \cup TmplEntries]
    /\ LifecycleFrame

\* interruptSingleEntry: entry.Interrupt(ctx), whenever its goroutine gets to run
LS_Interrupt(e) ==
    /\ e \in lc.pending
    /\ lc' = [lc EXCEPT !.pending = @ \ {e},
                        !.interrupted = @ \cup {e},
                        !.c[e] = IF e \in AnnEntries THEN AnnInterrupt(@)
                                                     ELSE TmplInterrupt(@)]
    /\ LifecycleFrame

\* Reload(newCfg) on a Component, newCfg enabled or not
E_Reload(e, newCfg) ==
    /\ lc' = [lc EXCEPT !.c[e] = IF e \in AnnEntries THEN AnnReload(@, newCfg)
                                                     ELSE TmplReload(@, newCfg)]
    /\ LifecycleFrame

NextLifecycle ==
    \/ LB_Call
    \/ LS_Call
    \/ \E e \in AnnEntries \cup TmplEntries :
          \/ LB_Entry(e)
          \/ LS_Interrupt(e)
          \/ \E newCfg \in BOOLEAN : E_Reload(e, newCfg)

SpecLifecycle == Init /\ [][NextLifecycle]_vars

\* Component e is disabled: cfg.Enabled of an AnnouncementEntry, the enabled flag
\* of a TemplateEntry
Disabled(e) == IF e \in AnnEntries THEN ~lc.c[e].cfg ELSE ~lc.c[e].enabled

-----------------------------------------------------------------------------
(* The construction functions RegisterAnnouncementEntry and                     *)
(* RegisterTemplateEntry on the list of entries of their section                *)

RegFuncFrame ==
    UNCHANGED <<regVars, bootVars, bsVars, plVars, tpVars, instVars, ctxVars, lcVars, nbVars>>

\* fmt.Sprintf("%s-%d", name, i)
Suffixed(name, i) == name \o "-" \o ToString(i)

\* RegisterAnnouncementEntry: the body of the loop for entry i (from 0) with the
\* name field entryName, as the result map it leaves
AnnRegister(result, entryName, i) ==
    LET name1 == IF entryName = "" THEN Suffixed(PluginName, i) ELSE entryName
        name2 == IF name1 \in DOMAIN result THEN Suffixed(name1, i) ELSE name1
    IN  (name2 :> i) @@ result

\* RegisterTemplateEntry: the body of the loop for entry i
TmplRegister(result, entryName, i) ==
    IF entryName = "" \/ entryName \in DOMAIN result
       THEN result
       ELSE (entryName :> i) @@ result

\* NewBoot calls construction function fn on a document whose section holds
\* entries with these names
R_Call(fn, names) ==
    /\ rf.fn = "none"
    /\ rf' = [fn |-> fn, names |-> names, i |-> 0, result |-> <<>>]
    /\ RegFuncFrame

\* one iteration of for i := range entries
R_Step ==
    /\ rf.fn # "none"
    /\ rf.i < Len(rf.names)
    /\ rf' = [rf EXCEPT !.i = @ + 1,
                        !.result = IF rf.fn = "RegisterAnnouncementEntry"
                                      THEN AnnRegister(@, rf.names[rf.i + 1], rf.i)
                                      ELSE TmplRegister(@, rf.names[rf.i + 1], rf.i)]
    /\ RegFuncFrame

NextRegFunc ==
    \/ \E fn \in RegFuncs, n \in 0..MaxEntries :
          \E names \in [1..n -> EntryNames] : R_Call(fn, names)
    \/ R_Step

SpecRegFunc == Init /\ [][NextRegFunc]_vars

-----------------------------------------------------------------------------
(* NewBoot: readYAML, the calls of the registered construction functions, the   *)
(* two pools and the catalog; the lookups of the Boot it returns; Bootstrap and *)
(* Shutdown as the calls they make on the Components of the pools               *)

NewBootFrame ==
    UNCHANGED <<regVars, bootVars, bsVars, plVars, tpVars, instVars, ctxVars, lcVars,
                rfVars>>

\* HasYAMLSection(raw, section): yaml.Unmarshal of zero bytes gives a nil map
HasYAMLSection(raw, section) == ~raw.empty /\ raw.sec[section].has

\* for i := range entries of a construction function, from entry i on
RECURSIVE RegisterLoop(_, _, _, _)
RegisterLoop(fn, names, i, result) ==
    IF i >= Len(names)
       THEN result
       ELSE RegisterLoop(fn, names, i + 1,
                         IF fn = "RegisterAnnouncementEntry"
                            THEN AnnRegister(result, names[i + 1], i)
                            ELSE TmplRegister(result, names[i + 1], i))

RegFuncResult_DefaultInstance(fn, raw) ==
    RegisterLoop(fn, IF HasYAMLSection(raw, Section(fn))
                        THEN raw.sec[Section(fn)].names ELSE <<"">>, 0, <<>>)

\* f(raw) for construction function fn: the names of the map it returns
RegFuncResult(fn, raw) ==
    IF ~HasYAMLSection(raw, Section(fn))
       THEN <<>>
       ELSE RegisterLoop(fn, raw.sec[Section(fn)].names, 0, <<>>)

\* Boot.readYAML: configRaw when it has bytes, else the file (embedFS is never
\* set), else os.Exit(1)
readYAML(configRaw, fileExists) ==
    IF ~configRaw.empty THEN [exit |-> FALSE, raw |-> configRaw]
    ELSE IF fileExists THEN [exit |-> FALSE, raw |-> FileDocument]
    ELSE [exit |-> TRUE, raw |-> configRaw]

\* RegisterPluginEntryRegFunc(fn) / RegisterUserEntryRegFunc(fn), before NewBoot
NB_Register(fam, fn) ==
    /\ nb.pc = "idle"
    /\ Len(nb.regFuncs[fam]) < MaxRegFuncs
    /\ nb' = [nb EXCEPT !.regFuncs[fam] = Append(@, fn)]
    /\ NewBootFrame

\* NewBoot(opts...) up to raw := boot.readYAML()
NB_Call(configRaw, fileExists) ==
    /\ nb.pc = "idle"
    /\ LET r == readYAML(configRaw, fileExists)
       IN  IF r.exit
              THEN nb' = [nb EXCEPT !.pc = "exit", !.exit = "os.Exit(1)"]
              ELSE nb' = [nb EXCEPT !.pc = "plugin", !.i = 0, !.raw = r.raw]
    /\ NewBootFrame

\* the body of for _, f := range List...EntryRegFunc(): f(raw) is called, and each
\* Entry it returns is put in the pool under (GetType(), name) and registered in
\* the AppContext under (GetType(), GetName())
NB_CallFunc ==
    /\ nb.pc \in RegFamilies
    /\ nb.i < Len(nb.regFuncs[nb.pc])
    /\ LET fam     == nb.pc
           k       == nb.i + 1
           fn      == nb.regFuncs[fam][k]
           res     == RegFuncResult(fn, nb.raw)
           entries == [key \in {<<EntryTypeName(fn), n>> : n \in DOMAIN res} |->
                         [type |-> key[1], name |-> key[2], fam |-> fam, k |-> k]]
       IN  nb' = [nb EXCEPT
                    !.i = k,
                    !.calls = Append(@, [fam |-> fam, k |-> k,
                                         lacking |-> ~HasYAMLSection(nb.raw, Section(fn)),
                                         n |-> Cardinality(DOMAIN res)]),
                    !.pools[fam] = entries @@ @,
                    !.catalog = entries @@ @]
    /\ NewBootFrame

\* the end of a loop: on to the user functions, or return boot
NB_LoopEnd ==
    /\ nb.pc \in RegFamilies
    /\ nb.i = Len(nb.regFuncs[nb.pc])
    /\ nb' = [nb EXCEPT !.pc = IF nb.pc = "plugin" THEN "user" ELSE "built", !.i = 0]
    /\ NewBootFrame

\* the Entries of a pool
PoolEntries(fam) == {nb.pools[fam][key] : key \in DOMAIN nb.pools[fam]}

\* Boot.Bootstrap: every Entry of both pools is bootstrapped; a Component or hook
\* that panics ends the process through syncLog
NB_Bootstrap ==
    /\ nb.pc = "built"
    /\ \E out \in {"returned"} \cup
                    (IF PoolEntries("plugin") \cup PoolEntries("user") = {}
                        THEN {} ELSE {"exit"}) :
          nb' = [nb EXCEPT !.pc = IF out = "exit" THEN "exit" ELSE "bootstrapped",
                           !.exit = IF out = "exit" THEN "os.Exit(1)" ELSE @,
                           !.bootstrapped = PoolEntries("plugin") \cup PoolEntries("user")]
    /\ NewBootFrame

\* Boot.Shutdown: every Entry of both pools is interrupted; a goroutine of the user
\* pool that outlives the pool's wait can end the process (wg.Done on the reset
\* WaitGroup)
NB_Shutdown ==
    /\ nb.pc \in {"built", "bootstrapped"}
    /\ \E out \in {"returned"} \cup (IF PoolEntries("user") = {} THEN {} ELSE {"panic"}) :
          nb' = [nb EXCEPT !.pc = IF out = "panic" THEN "exit" ELSE "shutdown",
                           !.exit = IF out = "panic" THEN "panic" ELSE @,
                           !.interrupted = IF out = "panic"
                                              THEN PoolEntries("user")
                                              ELSE PoolEntries("plugin") \cup PoolEntries("user")]
    /\ NewBootFrame

\* Boot.GetEntry(entryType, entryName): the plugin pool is looked up first
GetEntry(entryType, entryName) ==
    LET key == <<entryType, entryName>>
    IN  IF key \in DOMAIN nb.pools["plugin"] THEN nb.pools["plugin"][key]
        ELSE IF key \in DOMAIN nb.pools["user"] THEN nb.pools["user"][key]
        ELSE NilEntry

\* Boot.GetAllEntries(): the plugin pool is copied first, the user pool over it
GetAllEntries == nb.pools["user"] @@ nb.pools["plugin"]

\* Boot.GetEntriesByType(entryType): the same for one type, by name
GetEntriesByType(entryType) ==
    [n \in {key[2] : key \in {x \in DOMAIN GetAllEntries : x[1] = entryType}} |->
        GetAllEntries[<<entryType, n>>]]

\* Boot.CountEntries()
CountEntries ==
    Cardinality(DOMAIN nb.pools["plugin"]) + Cardinality(DOMAIN nb.pools["user"])

NextNewBoot ==
    \/ \E fam \in RegFamilies, fn \in RegFuncs : NB_Register(fam, fn)
    \/ \E configRaw \in Documents, fileExists \in BOOLEAN : NB_Call(configRaw, fileExists)
    \/ NB_CallFunc
    \/ NB_LoopEnd
    \/ NB_Bootstrap
    \/ NB_Shutdown

SpecNewBoot == Init /\ [][NextNewBoot]_vars

-----------------------------------------------------------------------------
(* Claims about Boot.Shutdown *)

\* the Interrupt of Entry e has been invoked
Invoked(e) == g[e].ipc \in {"running", "returned"}

\* C9: with hooks that return, timers that fire and goroutines that run,
\* Shutdown eventually returns although every Interrupt blocks forever.
C9_ShutdownReturns == <>(boot.pc = "returned")

\* C10 as stated: when a plugin-class Interrupt is invoked, every user-class
\* Interrupt has returned.
C10_UserReturnedBeforePlugin ==
    (\E p \in PluginEntries : Invoked(p))
    => \A u \in UserEntries : g[u].ipc = "returned"

\* C10 (amended): when a plugin-class Interrupt is invoked, every user-class
\* Interrupt has returned or has been given up on: its interruptSingleEntry has
\* stopped waiting on the per-Component deadline, or the aggregate shutdown
\* deadline has elapsed.
C10_UserReleasedBeforePlugin ==
    (\E p \in PluginEntries : Invoked(p))
    => \/ boot.fired
       \/ \A u \in UserEntries :
             g[u].ipc = "returned" \/ g[u].pc \in {"wgdone", "exit"}

\* a plugin-class Interrupt runs, the aggregate deadline has not elapsed, one
\* user-class Interrupt has returned and the other was given up on while running
C10_Witness ==
    /\ \E p \in PluginEntries : Invoked(p)
    /\ ~boot.fired
    /\ \E u \in UserEntries : g[u].ipc = "returned"
    /\ \E u \in UserEntries : g[u].ipc = "running" /\ g[u].pc = "exit"

\* C12: every registered shutdown hook is run at most once, and when the Interrupt
\* of any Component is invoked every hook has run exactly once and returned.
C12_HooksBeforeInterrupts ==
    /\ \A h \in Hooks : boot.hookRuns[h] <= 1
    /\ (\E e \in Entries : Invoked(e)) => \A h \in Hooks : boot.hookRuns[h] = 1

\* an Interrupt has been invoked after the hooks
C12_Witness ==
    /\ \E e \in Entries : Invoked(e)
    /\ \A h \in Hooks : boot.hookRuns[h] = 1

\* the per-Component interrupt of Entry e (its interruptSingleEntry call) is over
Completed(e) == g[e].pc \in {"wgdone", "exit"}

C15_FanOut ==
    Alive =>
      \A e \in Entries :
          /\ (boot.pc \in {"spawn_user", "spawn_plugin"} /\ e \in boot.toSpawn)
                => ENABLED S_Spawn(e)
          /\ g[e].pc = "start" => ENABLED G_Start(e)
          /\ g[e].ipc = "spawned" => ENABLED I_Invoke(e)
          /\ g[e].ipc = "running" => ENABLED I_Return(e)

\* while the pool is still waited for, one user-class Interrupt is blocked and the
\* other has been invoked and has returned
C15_Witness ==
    /\ boot.pc = "wait_user"
    /\ ~boot.fired
    /\ g["u1"].ipc = "running" /\ g["u1"].pc = "select"
    /\ g["u2"].ipc = "returned"

C17_DeadlinesCompose ==
    \A e \in Entries :
        boot.fired =>
            /\ g[e].ctx # "none" => EntryDone(e)
            /\ (Alive /\ g[e].pc = "select") => ENABLED G_Select(e)

\* the aggregate deadline has elapsed while a per-Component wait whose own timer
\* has not fired is still on and the Interrupt is running
C17_Witness ==
    /\ boot.fired
    /\ Alive
    /\ \E e \in Entries : g[e].pc = "select" /\ g[e].ctx = "live" /\ g[e].ipc = "running"

\* C19: when a shutdown hook or a Component's Interrupt has panicked, the process
\* has ended through syncLog's logged os.Exit(1).
C19_ShutdownPanicCaught ==
    boot.panicIn \in {"hook", "Interrupt"} => boot.crashed = "os.Exit(1)"

-----------------------------------------------------------------------------
(* Claims about Boot.Bootstrap *)

\* the Entries stored under key k, in either pool
EntriesOf(k) == {e \in Entries : EntryKey(e) = k}

\* the Bootstrap of Entry e has been invoked
BootstrapInvoked(e) == bs.phase[e] \in {"in_bootstrap", "bootstrapped", "in_after", "done"}

\* C13: no two Components are inside before-hook, Bootstrap or after-hook at the
\* same time, and when anything of a user-class Component has been invoked every
\* plugin-class Component is through Bootstrap and its after-hook.
C13_SequentialPluginThenUser ==
    /\ Cardinality({e \in Entries :
                      bs.phase[e] \in {"in_before", "before_done", "in_bootstrap",
                                       "bootstrapped", "in_after"}}) <= 1
    /\ (\E u \in UserEntries : bs.phase[u] # "none" \/ bs.cur = u)
       => \A p \in PluginEntries : bs.phase[p] = "done"

\* the second user-class Component is in Bootstrap, everything else is through
C13_Witness ==
    /\ \E u \in UserEntries : bs.phase[u] = "in_bootstrap"
    /\ \E u \in UserEntries : bs.phase[u] = "done"
    /\ \A p \in PluginEntries : bs.phase[p] = "done"

\* the order of the calls around one Component: a registered before-hook has
\* returned when Bootstrap is invoked, the after-hook is invoked only when
\* Bootstrap has returned, and only registered hooks are counted as run
HookOrder ==
    \A e \in Entries :
        /\ (BootstrapInvoked(e) /\ EntryKey(e) \in hookF.before) => e \in bs.ranBefore
        /\ (bs.phase[e] = "in_after" \/ e \in bs.ranAfter) => e \in bs.booted
        /\ e \in bs.ranBefore => EntryKey(e) \in hookF.before
        /\ e \in bs.ranAfter => EntryKey(e) \in hookF.after

\* C14 as stated: the hook order holds, and when Bootstrap has returned every
\* registered hook has run exactly once and every other key's hook not at all.
C14_HookOncePerCall ==
    /\ HookOrder
    /\ bs.pc = "returned" =>
          \A k \in Keys :
              /\ bs.nBefore[k] = IF k \in hookF.before THEN 1 ELSE 0
              /\ bs.nAfter[k] = IF k \in hookF.after THEN 1 ELSE 0

\* C14 (amended): the hook order holds, and when Bootstrap has returned a hook
\* registered for (type, name) has run once for each Component stored under that
\* (type, name), in whichever pool, and a key without a hook has run nothing.
C14_HookOncePerComponent ==
    /\ HookOrder
    /\ \A k \in Keys : /\ bs.nBefore[k] <= Cardinality(EntriesOf(k))
                       /\ bs.nAfter[k] <= Cardinality(EntriesOf(k))
    /\ bs.pc = "returned" =>
          \A k \in Keys :
              /\ bs.nBefore[k] = IF k \in hookF.before THEN Cardinality(EntriesOf(k)) ELSE 0
              /\ bs.nAfter[k] = IF k \in hookF.after THEN Cardinality(EntriesOf(k)) ELSE 0

\* Bootstrap has returned with a before-hook on every key and an after-hook on
\* the key of one Component only
C14_Witness ==
    /\ bs.pc = "returned"
    /\ hookF.before = Keys
    /\ hookF.after = {"k1"}
    /\ bs.ranBefore = Entries
    /\ bs.ranAfter = EntriesOf("k1")

\* C18: once a hook or a Bootstrap has panicked, the only step is syncLog's fatal
\* exit: no Component is bootstrapped and no hook is run any more.
C18_PanicIsFatal ==
    [][bs.panicIn # "none"
       => /\ bs'.pc = "exited"
          /\ bs'.crashed = "os.Exit(1)"
          /\ bs'.phase = bs.phase
          /\ bs'.booted = bs.booted
          /\ bs'.nBefore = bs.nBefore
          /\ bs'.nAfter = bs.nAfter]_vars

\* a Bootstrap panicked, the process exited and a later Component was never
\* bootstrapped
C18_Witness ==
    /\ bs.crashed = "os.Exit(1)"
    /\ bs.panicIn = "in_bootstrap"
    /\ bs.booted # {}
    /\ \E e \in Entries : bs.phase[e] = "none"

-----------------------------------------------------------------------------
(* Claims about the Plugin's status stream *)

\* C20 as stated: the last two events received from StatusNotify() never carry the
\* same status, whatever was called and whenever the consumer reads.
C20_NoRepeatedStatus == pl.last = "none" \/ pl.prev # pl.last

\* C20 (amended): as long as updateStatus has never found the channel full, the
\* last two events received from StatusNotify() never carry the same status.
C20_NoRepeatedStatusUnlessDropped ==
    pl.dropped = 0 => (pl.last = "none" \/ pl.prev # pl.last)

\* the consumer has received Running and then Stopped, nothing was dropped
C20_Witness ==
    /\ pl.dropped = 0
    /\ pl.prev = "Running"
    /\ pl.last = "Stopped"

-----------------------------------------------------------------------------
(* Claims about the registry and the PluginInstance wrapper *)

\* C1 as stated: once a CreateInstance has succeeded for an id, every later
\* CreateInstance with that id fails with the duplicate-id error.
C1_EveryLaterCreateFails ==
    \A t \in Threads :
        (th[t].pc = "ci_ret" /\ th[t].wasCreated) => th[t].res = "duplicate"

\* C1 (amended): a CreateInstance whose id is registered when the call takes the
\* registry lock (created before and not removed since) ends with the
\* duplicate-id error, and none of its steps changes the instance map or any
\* PluginInstance: the object under the id, its config and its plugin stay.
C1_DuplicateRejected ==
    [][\A t \in Threads :
          (/\ th[t].pc \in {"ci_check", "ci_factory", "ci_default", "ci_validate",
                             "ci_create", "ci_ret"}
           /\ th[t].snapInst[th[t].id] # 0
           /\ th'[t] # th[t])
          => /\ instances' = instances
             /\ heap' = heap
             /\ applied' = applied
             /\ th'[t].pc \in {"ci_ret", "idle"}
             /\ th'[t].pc = "ci_ret" => th'[t].res = "duplicate"]_vars

C1_Witness ==
    \E t \in Threads :
        /\ th[t].pc = "ci_ret"
        /\ th[t].res = "duplicate"
        /\ th[t].wasCreated
        /\ instances[th[t].id] # 0

\* C2: an UpdateConfig whose newConfig fails ValidateConfig returns the
\* validation error, leaves the config of record as it was before the call and
\* never invokes Plugin.Reload.
C2_ValidateBeforeApply ==
    \A t \in Threads :
        (th[t].pc = "uc_ret" /\ ~ValidateConfig(th[t].cfg))
        => /\ th[t].res = "invalidConfig"
           /\ heap[th[t].obj].config = th[t].before
           /\ th[t].reload = "none"

C2_Witness ==
    \E t \in Threads :
        /\ th[t].pc = "uc_ret"
        /\ ~ValidateConfig(th[t].cfg)
        /\ th[t].cfg # th[t].before

\* C3: an UpdateConfig whose newConfig passes ValidateConfig and whose
\* Plugin.Reload fails returns the reload error and leaves the config of record
\* equal to the one held immediately before the call.
C3_RollbackOnReloadFailure ==
    \A t \in Threads :
        (th[t].pc = "uc_ret" /\ th[t].reload = "err")
        => /\ ValidateConfig(th[t].cfg)
           /\ th[t].res = "reloadFailed"
           /\ heap[th[t].obj].config = th[t].before

C3_Witness ==
    \E t \in Threads :
        /\ th[t].pc = "uc_ret"
        /\ th[t].reload = "err"
        /\ th[t].cfg # th[t].before

\* C4: whenever no UpdateConfig is in progress on an instance, its config of
\* record passes ValidateConfig and is the value most recently applied to its
\* Plugin with success (by Create, or by a Reload that returned nil).
C4_ConfigIsLastApplied ==
    \A o \in Objs :
        imu[o] = "free"
        => /\ heap[o].config = applied[o]
           /\ ValidateConfig(heap[o].config)

\* an instance created with CfgA (read back by a GetConfig that has not yet
\* returned) now holds CfgB, and some UpdateConfig on it has failed since
C4_Witness ==
    \E o \in Objs, t \in Threads :
        /\ imu[o] = "free"
        /\ heap[o].config = CfgB
        /\ th[t].pc = "gc_ret"
        /\ th[t].obj = o
        /\ th[t].got = CfgA

\* C5: the value a GetConfig returns is the config last applied with success at
\* the moment of the read, never one installed tentatively by an UpdateConfig
\* that has not finished.
C5_ReadersSeeNoTentativeConfig ==
    \A t \in Threads : th[t].pc = "gc_ret" => th[t].got = th[t].gotApplied

\* a GetConfig that overlaps an UpdateConfig holding a tentative config
C5_Witness ==
    \E t, u \in Threads :
        /\ th[t].pc = "gc_ret"
        /\ th[u].pc = "uc_reload"
        /\ th[u].obj = th[t].obj
        /\ heap[th[u].obj].config # th[t].got

\* C6: under concurrent CreateInstance calls no id ever gets a second instance
\* (at most one call per id succeeds), and a call that has seen its id free
\* keeps seeing it free until it registers its own instance.
C6_AtMostOnePerId ==
    /\ \A i \in Ids : Cardinality({o \in Objs : heap[o].id = i}) <= 1
    /\ \A t \in Threads :
          th[t].pc \in {"ci_factory", "ci_default", "ci_validate", "ci_create"}
          => instances[th[t].id] = 0

\* two overlapping calls for one id: one has registered, the other got the
\* duplicate-id error
C6_Witness ==
    \E t, u \in Threads :
        /\ t # u
        /\ th[t].id = th[u].id
        /\ th[t].pc = "ci_ret"
        /\ th[t].res = "duplicate"
        /\ th[u].pc = "ci_lock"
        /\ instances[th[t].id] # 0

\* C7: a CreateInstance that fails, for whichever reason, returns with the
\* instance map and the factory map as they were when it started and with no
\* PluginInstance allocated.
C7_FailedCreateChangesNothing ==
    \A t \in Threads :
        (th[t].pc = "ci_ret" /\ th[t].res # "ok")
        => /\ instances = th[t].snapInst
           /\ factories = th[t].snapFact
           /\ Len(heap) = th[t].snapLen

C7_Witness ==
    \E t \in Threads :
        /\ th[t].pc = "ci_ret"
        /\ th[t].res = "createFailed"
        /\ instances[th[t].id] = 0

\* C8: CreateInstance checks in the order duplicate id, factory lookup,
\* defaulting, validation, Create: a registered id gives the duplicate-id error
\* whatever the plugin type, an unknown type is reported only for a free id, a
\* config (supplied or defaulted) is rejected only for a free id and a known
\* type, and Create is only ever invoked with a config ValidateConfig accepts.
C8_CheckOrder ==
    /\ \A c \in createdWith : ValidateConfig(c)
    /\ \A t \in Threads :
          th[t].pc = "ci_ret"
          => /\ th[t].snapInst[th[t].id] # 0 => th[t].res = "duplicate"
             /\ th[t].res = "unknownFactory"
                   => th[t].snapInst[th[t].id] = 0 /\ th[t].ptype \notin th[t].snapFact
             /\ th[t].res = "invalidConfig"
                   => /\ th[t].snapInst[th[t].id] = 0
                      /\ th[t].ptype \in th[t].snapFact
                      /\ th[t].cfg # Nil
                      /\ ~ValidateConfig(th[t].cfg)
             /\ th[t].res \in {"ok", "createFailed"}
                   => th[t].cfg # Nil /\ ValidateConfig(th[t].cfg)

\* a duplicate id reported for a plugin type no factory is registered for
C8_Witness ==
    \E t \in Threads :
        /\ th[t].pc = "ci_ret"
        /\ th[t].res = "duplicate"
        /\ th[t].ptype \notin factories

-----------------------------------------------------------------------------
(* Claims about the Plugin contract *)

\* a step in which a call of method op on the announcement Plugin returns
Returns(op) == ret' # ret /\ ret'.op = op

C22_StopNilIsStopped ==
    (tp.op = "Stop" /\ tp.err = "nil") => tp.status = "Stopped"

\* C23: when Start, Stop or Reload returns an error the status is Error afterwards
\* and the event of that transition carries the error (stated for the template
\* Plugin).
C23_ErrorReturnMeansErrorStatus ==
    /\ (tp.op \in {"Start", "Stop", "Reload"} /\ tp.err = "error")
           => tp.status = "Error"
    /\ \A i \in 1..Len(tp.ch) : tp.ch[i].status = "Error" => tp.ch[i].err # "nil"

\* C24: a status change on a full status channel drops the event and nothing
\* else: the channel keeps its content, the new status is in effect after the call
\* (Stopped after a Stop that returned nil, Running after a Start that returned
\* nil on an enabled configuration, Error after any call that returned an error),
\* and with no consumer at all every call can still be made and returns.
C24_StatusChangeNeverBlocks ==
    /\ [][(Len(pl.ch) = StatusChCap /\ pl'.status # pl.status)
             => (pl'.ch = pl.ch /\ pl'.dropped = pl.dropped + 1)]_vars
    /\ []((ret.op = "Stop" /\ ret.err = "nil") => pl.status = "Stopped")
    /\ []((ret.op = "Start" /\ ret.err = "nil" /\ pl.enabled) => pl.status = "Running")
    /\ [](ret.err = "error" => pl.status = "Error")
    /\ [](pl.dropped < MaxDrops
            => (ENABLED Start /\ ENABLED Stop /\ \A c \in ReloadArgs : ENABLED Reload(c)))

\* the channel is full, nobody has received anything, an event has been dropped and
\* the Stop that dropped it has returned nil with the status Stopped
C24_Witness ==
    /\ Len(pl.ch) = StatusChCap /\ pl.last = "none"
    /\ pl.dropped > 0
    /\ ret.op = "Stop" /\ ret.err = "nil" /\ pl.status = "Stopped"

\* C25: whenever no UpdateConfig is under way on an instance wrapping the
\* announcement Plugin, so after each UpdateConfig has returned with or without an
\* error, the wrapper's config of record is the config the Plugin holds, and a
\* Monitor attached to the Plugin was built from that config.
C25_WrapperAndPluginAgree ==
    (wi.made /\ wi.pc = "idle")
       => /\ wi.config = wi.p.cfg
          /\ wi.p.monitor.state # "nil" => wi.p.monitor.cfg = wi.p.cfg

\* an UpdateConfig on a running instance has failed, after an earlier one
\* replaced the config the instance was created with and restarted the Monitor
C25_Witness ==
    /\ wi.op = "UpdateConfig" /\ wi.err = "error" /\ wi.pc = "idle"
    /\ wi.config = WithEnabled(CfgB, TRUE)
    /\ wi.p.monitor = NewMonitor(WithEnabled(CfgB, TRUE))
    /\ wi.p.status = "Running"

\* C26: every read operation of the Context returns a copy: a caller's mutation
\* of a returned collection leaves what the Context holds unchanged, and a later
\* registration or removal leaves the results the caller holds unchanged.
C26_ReadsReturnCopies ==
    /\ [][CallerWrite => ContextState' = ContextState]_vars
    /\ [][ContextWrite => HeldState' = HeldState]_vars

-----------------------------------------------------------------------------
(* Claims about the registry, continued *)

\* C27: a RemoveInstance(id) on an absent id returns not-found and changes
\* nothing of the registry; on a present id it deletes the entry of id and no
\* other, and it leaves every PluginInstance object as it was: no Plugin is
\* stopped, no status and no config changes, the factories stay.
C27_RemoveInstanceFrame ==
    [][\A t \in Threads :
          (th[t].pc = "idle" /\ th'[t].pc = "rm_ret")
             => /\ heap' = heap /\ applied' = applied /\ factories' = factories
                /\ IF instances[th'[t].id] = 0
                      THEN th'[t].res = "notFound" /\ instances' = instances
                      ELSE /\ th'[t].res = "ok"
                           /\ instances' = [instances EXCEPT ![th'[t].id] = 0]]_vars

\* a RemoveInstance has removed one of two registered instances: the other is
\* still registered and both Plugins are Idle as created
C27_Witness ==
    \E t \in Threads :
       /\ th[t].pc = "rm_ret" /\ th[t].res = "ok"
       /\ instances[th[t].id] = 0
       /\ \E id \in Ids : instances[id] # 0
       /\ Len(heap) = 2
       /\ \A o \in Objs : heap[o].status = "Idle"

-----------------------------------------------------------------------------
(* Claims about the Components' lifecycle *)

\* C28: a Component is never resurrected: once Boot has called its Interrupt, no
\* later Boot.Bootstrap or Boot.Shutdown brings it back to running, and its
\* Bootstrap is not called again.
C28_NeverResurrected ==
    /\ [](\A e \in lc.interrupted : lc.c[e].mon # "running")
    /\ [][\A e \in lc.interrupted : ~LB_Entry(e)]_vars

-----------------------------------------------------------------------------
(* Claims about the construction functions *)

\* C30: when the construction function returns for a section whose entries all
\* have blank names, the entry at each position i is in the result under the
\* name "{section}-{i}" and the result holds nothing else.
C30_BlankNamesGetSectionIndex ==
    (/\ rf.fn # "none" /\ rf.i = Len(rf.names)
     /\ \A j \in 1..Len(rf.names) : rf.names[j] = "")
       => /\ DOMAIN rf.result = {Suffixed(Section(rf.fn), j - 1) : j \in 1..Len(rf.names)}
          /\ \A j \in 1..Len(rf.names) :
                rf.result[Suffixed(Section(rf.fn), j - 1)] = j - 1

-----------------------------------------------------------------------------
(* Claims about Boot.Shutdown, continued *)

\* C32 as stated: when a plugin-class Interrupt has been invoked, every
\* user-class Interrupt has been invoked.
C32_UserInvokedBeforePlugin ==
    (\E p \in PluginEntries : Invoked(p)) => \A u \in UserEntries : Invoked(u)

\* C32 (amended): when a plugin-class Interrupt has been invoked, every user-class
\* Interrupt has been invoked or its interruptSingleEntry has stopped waiting for
\* it at the per-Component deadline, or the aggregate shutdown deadline has
\* elapsed (the ctx given to Shutdown being done counts as elapsed).
C32_UserInvokedOrGivenUpBeforePlugin ==
    (\E p \in PluginEntries : Invoked(p))
    => \/ boot.fired
       \/ \A u \in UserEntries : Invoked(u) \/ Completed(u)

\* a plugin-class Interrupt has been invoked before the aggregate deadline, after
\* one user-class Interrupt was invoked and while the other, given up on at its
\* per-Component deadline, has not been invoked yet
C32_Witness ==
    /\ \E p \in PluginEntries : Invoked(p)
    /\ ~boot.fired
    /\ \E u \in UserEntries : Invoked(u)
    /\ \E u \in UserEntries : g[u].ipc = "spawned" /\ Completed(u)

\* the plugin pool's part of interruptWithContext has begun: wg has been reset
PluginPoolPhase == boot.pc \in {"spawn_plugin", "wait_plugin", "returned"}

\* C33: no wg.Done() drives the counter below zero, and once the WaitGroup serves
\* the plugin pool the wg.Done() of a user-class goroutine leaves it as it is: it
\* neither decrements the plugin pool's counter nor releases the plugin-pool wait.
C33_DoneMatchesAddOfItsPool ==
    /\ [](boot.panicIn # "wg.Done")
    /\ [][PluginPoolPhase
            => \A u \in UserEntries :
                  (g[u].pc = "wgdone" /\ g'[u].pc = "exit") => wg' = wg]_vars

\* C34: with goroutines that run and timers that fire, a Shutdown call comes to
\* have invoked the Interrupt of every Component of both pools (an Interrupt is
\* invoked at most once: a goroutine is spawned once per Component and calls it
\* once).
C34_EveryComponentInterrupted == <>(\A e \in Entries : Invoked(e))

-----------------------------------------------------------------------------
(* Claims about the Plugins' Start, Stop and Reload *)

\* C37: no call on the template Plugin panics: Stop never closes a stop channel
\* that is closed already.
C37_StopNeverPanics == tp.err # "panic"

\* C38: when the call that returned last on the announcement Plugin is a Stop
\* without error, no Monitor the Plugin has started is still running: it holds
\* none, and none that it no longer refers to was left running.
C38_StopLeavesNoMonitorRunning ==
    (wi.op = "Stop" /\ wi.err = "nil")
       => (wi.p.monitor.state # "running" /\ wi.p.orphans = {})

\* C39: on the announcement Plugin, status Running implies a Monitor is attached,
\* and status Idle or Stopped implies none is.
C39_StatusMatchesMonitor ==
    /\ pl.status = "Running" => pl.monitor # "nil"
    /\ pl.status \in {"Idle", "Stopped"} => pl.monitor = "nil"

\* the Plugin is in status Error with the Monitor a timed-out Stop left attached,
\* after it was Running and with some status events dropped on the way
C39_Witness ==
    /\ pl.status = "Error" /\ pl.monitor = "stopped"
    /\ pl.dropped > 0
    /\ ret.op = "Stop" /\ ret.err = "error"

-----------------------------------------------------------------------------
(* Claims about the construction functions, continued *)

\* C40: when RegisterAnnouncementEntry returns, its result holds exactly one
\* Component per entry of the section: every entry is in it, under a name of its
\* own.
C40_OneComponentPerEntry ==
    (rf.fn = "RegisterAnnouncementEntry" /\ rf.i = Len(rf.names))
       => /\ Cardinality(DOMAIN rf.result) = Len(rf.names)
          /\ \A j \in 1..Len(rf.names) :
                \E name \in DOMAIN rf.result : rf.result[name] = j - 1

-----------------------------------------------------------------------------
(* Claims about NewBoot and the lookups of Boot *)

\* NewBoot has returned
Built == nb.pc \in {"built", "bootstrapped", "shutdown"}

\* the calls NewBoot is to make: every registration of the plugin family in
\* order, then every registration of the user family in order
ExpectedCalls ==
    [j \in 1..(Len(nb.regFuncs["plugin"]) + Len(nb.regFuncs["user"])) |->
        IF j <= Len(nb.regFuncs["plugin"])
           THEN <<"plugin", j>>
           ELSE <<"user", j - Len(nb.regFuncs["plugin"])>>]

\* a construction function was called on a document that lacks its section
LackingCalls == {j \in 1..Len(nb.calls) : nb.calls[j].lacking}

\* the Entries call j of NewBoot has put in a pool
EntriesOfCall(j) ==
    {e \in PoolEntries("plugin") \cup PoolEntries("user") :
        e.fam = nb.calls[j].fam /\ e.k = nb.calls[j].k}

\* C31: a construction function called on a document that lacks its section
\* returns an empty mapping; no Component of it is in a pool, bootstrapped or
\* interrupted; NewBoot goes on to return; and a Boot left without any Component
\* bootstraps and shuts down without fatal exit.
C31_EmptySectionSafety ==
    /\ \A j \in LackingCalls :
          /\ nb.calls[j].n = 0
          /\ EntriesOfCall(j) = {}
          /\ \A e \in nb.bootstrapped \cup nb.interrupted :
                ~(e.fam = nb.calls[j].fam /\ e.k = nb.calls[j].k)
    /\ (nb.pc \in RegFamilies /\ LackingCalls # {})
          => (ENABLED NB_CallFunc \/ ENABLED NB_LoopEnd)
    /\ (nb.calls # <<>> /\ \A j \in 1..Len(nb.calls) : nb.calls[j].lacking)
          => /\ nb.pc # "exit"
             /\ nb.pc = "built" => ENABLED NB_Bootstrap
             /\ nb.pc = "bootstrapped" => ENABLED NB_Shutdown

\* Shutdown has returned on a Boot whose two registered construction functions
\* were both given a document without their section, a document that is not empty
C31_Witness ==
    /\ nb.pc = "shutdown"
    /\ ~nb.raw.empty
    /\ Len(nb.calls) = 2
    /\ LackingCalls = {1, 2}
    /\ nb.bootstrapped = {} /\ nb.interrupted = {}

\* C35: when NewBoot has returned, every registration of a construction function
\* has been called exactly once, those of the plugin family before those of the
\* user family, and every Component held in a pool is in the catalog of the
\* AppContext under its (type, name).
C35_CalledOnceAndCatalogued ==
    Built =>
      /\ Len(nb.calls) = Len(ExpectedCalls)
      /\ \A j \in 1..Len(nb.calls) : <<nb.calls[j].fam, nb.calls[j].k>> = ExpectedCalls[j]
      /\ \A fam \in RegFamilies : \A key \in DOMAIN nb.pools[fam] :
            /\ key \in DOMAIN nb.catalog
            /\ nb.catalog[key] = nb.pools[fam][key]

\* C36: when NewBoot has returned, for every (type, name) the three lookups
\* return the same Component (or none), and CountEntries() is the number of
\* Components GetAllEntries() holds.
C36_LookupsAgree ==
    Built =>
      /\ \A key \in DOMAIN nb.pools["plugin"] \cup DOMAIN nb.pools["user"]
                    \cup {<<"AnnouncementEntry", "none">>} :
            LET byType == GetEntriesByType(key[1])
                all    == GetAllEntries
            IN  /\ GetEntry(key[1], key[2])
                      = (IF key[2] \in DOMAIN byType THEN byType[key[2]] ELSE NilEntry)
                /\ GetEntry(key[1], key[2])
                      = (IF key \in DOMAIN all THEN all[key] ELSE NilEntry)
      /\ CountEntries = Cardinality(DOMAIN GetAllEntries)

====
